---- MODULE Spec2Model ----
(***************************************************************************)
(* Openlyst-more-builds: the download resolvers, the per-target emitters   *)
(* and the batch loops of build.py, build_altstore_repo.py,                *)
(* build_fdroid_repo.py, build_homebrew_tap.py and build_winget_repo.py.   *)
(*                                                                         *)
(* Python values are tagged records of one shape.  A str is the tuple of  *)
(* its characters, so that strip(), startswith() and the substring test    *)
(* `key in str` are computed, not assumed.  A dict is the sequence of its  *)
(* (key, value) items in insertion order, which is the order items()       *)
(* iterates in.                                                            *)
(***************************************************************************)
EXTENDS Integers, Sequences, FiniteSets, TLC

VARIABLES
    version,          \* resolver run: the version record handed to the resolver
    platform,         \* resolver run: the platform the caller resolves for
    called,           \* resolver run: the resolver that was called ("" = none yet)
    result,           \* resolver run: what the call returned (or that it raised)
    again,            \* resolver run: what a second call on the record returned
    arg,              \* helper call: the argument handed to the helper
    prog,             \* batch run: the script and its command line
    apps,             \* batch run: the catalog get_all_apps returns
    pc,               \* batch run: the builder whose loop is running
    idx,              \* batch run: index of the next application of the loop
    generated_count,  \* batch run: counter of the running loop
    failed_count,     \* batch run: counter of the running loop
    entries,          \* batch run: app_entries / apps_data / app_infos of the loop
    files,            \* batch run: the files and directories written so far
    results,          \* batch run: main's results dict (target -> bool)
    homebrew_results, \* batch run: main's homebrew_results list
    exit_code,        \* batch run: the process exit code (-1 = still running)
    trail,            \* batch run: per builder and application, the path taken
    requests          \* batch run: the HTTP requests issued for artifact URLs

vars == <<version, platform, called, result, again, arg, prog, apps, pc, idx,
          generated_count, failed_count, entries, files, results,
          homebrew_results, exit_code, trail, requests>>

resolverVars == <<version, platform, called, result, again, arg>>
batchVars == <<prog, apps, pc, idx, generated_count, failed_count, entries,
               files, results, homebrew_results, exit_code, trail, requests>>

-----------------------------------------------------------------------------
(* Python values *)

Str(x)  == [t |-> "str",  s |-> x,    d |-> <<>>, n |-> 0]
Dict(x) == [t |-> "dict", s |-> <<>>, d |-> x,    n |-> 0]
Num(k)  == [t |-> "int",  s |-> <<>>, d |-> <<>>, n |-> k]
NoneV   == [t |-> "none", s |-> <<>>, d |-> <<>>, n |-> 0]
\* a key that is not in the record at all
AbsentV == [t |-> "absent", s |-> <<>>, d |-> <<>>, n |-> 0]
\* the call did not return: an exception left the function
Raise   == [t |-> "raise", s |-> <<>>, d |-> <<>>, n |-> 0]
\* a loop ran to its end without returning
Miss    == [t |-> "miss", s |-> <<>>, d |-> <<>>, n |-> 0]
\* no call yet
Pending == [t |-> "pending", s |-> <<>>, d |-> <<>>, n |-> 0]

IsStr(v)  == v.t = "str"
IsDict(v) == v.t = "dict"

\* bool(v)
Truthy(v) ==
    CASE v.t = "str"  -> v.s # <<>>
      [] v.t = "dict" -> v.d # <<>>
      [] v.t = "int"  -> v.n # 0
      [] OTHER        -> FALSE

\* k in d, d[k] and d.get(k, default) of a dict d
Has(v, k) == \E j \in 1..Len(v.d) : v.d[j][1] = k
Item(v, k) == v.d[CHOOSE j \in 1..Len(v.d) : v.d[j][1] = k][2]
Get(v, k, default) == IF Has(v, k) THEN Item(v, k) ELSE default

\* sub in s of two str
Contains(s, sub) ==
    \E j \in 0..(Len(s) - Len(sub)) : SubSeq(s, j + 1, j + Len(sub)) = sub

\* s.startswith(p)
StartsWith(s, p) == Len(s) >= Len(p) /\ SubSeq(s, 1, Len(p)) = p

IsSpace(c) == c = " "

RECURSIVE LStrip(_)
LStrip(s) == IF s # <<>> /\ IsSpace(Head(s)) THEN LStrip(Tail(s)) ELSE s

RECURSIVE RStrip(_)
RStrip(s) ==
    IF s # <<>> /\ IsSpace(s[Len(s)]) THEN RStrip(SubSeq(s, 1, Len(s) - 1)) ELSE s

\* s.strip()
Strip(s) == RStrip(LStrip(s))

\* record.get(field) and record.get(field, default) of a version record
VGet(v, field) == IF v[field] = AbsentV THEN NoneV ELSE v[field]
VGetD(v, field, default) == IF v[field] = AbsentV THEN default ELSE v[field]

-----------------------------------------------------------------------------
(* The literals of the source *)

HTTP == <<"h","t","t","p">>

iOS     == <<"i","O","S">>
Android == <<"A","n","d","r","o","i","d">>
macOS   == <<"m","a","c","O","S">>
Linux   == <<"L","i","n","u","x">>
Windows == <<"W","i","n","d","o","w","s">>

apk       == <<"a","p","k">>
universal == <<"u","n","i","v","e","r","s","a","l">>
arm64     == <<"a","r","m","6","4">>
arm       == <<"a","r","m">>
x86_64    == <<"x","8","6","_","6","4">>
x86       == <<"x","8","6">>
appimage  == <<"a","p","p","i","m","a","g","e">>
zip       == <<"z","i","p">>
deb       == <<"d","e","b">>
rpm       == <<"r","p","m">>
exe       == <<"e","x","e">>
msi       == <<"m","s","i">>
msix      == <<"m","s","i","x">>

-----------------------------------------------------------------------------
(* Download resolvers *)

\* extract_ipa_url with the prefix of downloadURL tested before stripping
extract_ipa_url_PrefixUnstripped(v) ==
    IF v.t # "dict" THEN NoneV
    ELSE
      LET downloads        == VGet(v, "downloads")
          ios_download     == IF IsDict(downloads) THEN Get(downloads, iOS, NoneV) ELSE NoneV
          platform_install == VGet(v, "platformInstall")
          ios_install      == IF IsDict(platform_install)
                              THEN Get(platform_install, iOS, NoneV) ELSE NoneV
          download_url     == VGet(v, "downloadURL")
      IN  IF IsDict(downloads) /\ IsStr(ios_download) /\ Strip(ios_download.s) # <<>>
          THEN Str(Strip(ios_download.s))
          ELSE IF /\ IsDict(platform_install) /\ IsStr(ios_install)
                  /\ Strip(ios_install.s) # <<>> /\ StartsWith(ios_install.s, HTTP)
          THEN Str(Strip(ios_install.s))
          ELSE IF /\ Truthy(download_url) /\ IsStr(download_url)
                  /\ StartsWith(download_url.s, HTTP)
          THEN Str(Strip(download_url.s))
          ELSE NoneV

\* build.py: AltStoreBuilder.extract_ipa_url
AltStoreBuilder_extract_ipa_url(v) ==
    IF v.t # "dict" THEN NoneV
    ELSE
      LET downloads        == VGet(v, "downloads")
          ios_download     == IF IsDict(downloads) THEN Get(downloads, iOS, NoneV) ELSE NoneV
          platform_install == VGet(v, "platformInstall")
          ios_install      == IF IsDict(platform_install)
                              THEN Get(platform_install, iOS, NoneV) ELSE NoneV
          download_url     == VGet(v, "downloadURL")
      IN  IF IsDict(downloads) /\ IsStr(ios_download) /\ Strip(ios_download.s) # <<>>
          THEN Str(Strip(ios_download.s))
          ELSE IF /\ IsDict(platform_install) /\ IsStr(ios_install)
                  /\ Strip(ios_install.s) # <<>> /\ StartsWith(ios_install.s, HTTP)
          THEN Str(Strip(ios_install.s))
          ELSE IF /\ Truthy(download_url) /\ IsStr(download_url)
                  /\ StartsWith(Strip(download_url.s), HTTP)
          THEN Str(Strip(download_url.s))
          ELSE NoneV

\* build_altstore_repo.py: AltStoreRepoBuilder.extract_ipa_url
AltStoreRepoBuilder_extract_ipa_url(v) ==
    IF v.t # "dict" THEN NoneV
    ELSE
      LET downloads        == VGet(v, "downloads")
          platform_install == VGet(v, "platformInstall")
          download_url     == VGet(v, "downloadURL")
          primary  == IF IsDict(downloads) THEN Get(downloads, iOS, NoneV) ELSE NoneV
          fallback == IF IsDict(platform_install)
                      THEN Get(platform_install, iOS, NoneV) ELSE NoneV
      IN  CASE IsStr(primary) /\ Strip(primary.s) # <<>> -> Str(Strip(primary.s))
            [] ~(IsStr(primary) /\ Strip(primary.s) # <<>>)
               /\ IsStr(fallback) /\ Strip(fallback.s) # <<>>
               /\ StartsWith(fallback.s, HTTP) -> Str(Strip(fallback.s))
            [] OTHER ->
               IF /\ Truthy(download_url) /\ IsStr(download_url)
                  /\ StartsWith(Strip(download_url.s), HTTP)
               THEN Str(Strip(download_url.s)) ELSE NoneV

\* for key in keys: if key in d and d[key]: return d[key]
RECURSIVE ProbeKeys(_, _, _)
ProbeKeys(d, keys, j) ==
    IF j > Len(keys) THEN Miss
    ELSE IF Has(d, keys[j]) /\ Truthy(Item(d, keys[j])) THEN Item(d, keys[j])
    ELSE ProbeKeys(d, keys, j + 1)

ApkKeys == <<apk, universal, arm64, arm, x86_64, x86>>

\* build.py: FDroidBuilder.extract_apk_url
FDroidBuilder_extract_apk_url(v) ==
    IF v.t # "dict" THEN NoneV
    ELSE
      LET downloads        == VGet(v, "downloads")
          android_download == IF IsDict(downloads) THEN Get(downloads, Android, NoneV) ELSE NoneV
          nested           == IF IsDict(android_download)
                              THEN ProbeKeys(android_download, ApkKeys, 1) ELSE Miss
          download_url     == VGet(v, "downloadURL")
      IN  IF IsStr(android_download) /\ Strip(android_download.s) # <<>>
          THEN Str(Strip(android_download.s))
          ELSE IF nested # Miss THEN nested
          ELSE IF /\ Truthy(download_url) /\ IsStr(download_url)
                  /\ StartsWith(Strip(download_url.s), HTTP)
          THEN Str(Strip(download_url.s))
          ELSE NoneV

\* build_fdroid_repo.py: FDroidMetadataGenerator.get_android_download_url
\* version.get and downloads.get raise AttributeError on a non-dict; on a str
\* `'apk' in x` is the substring test and x['apk'] raises TypeError; on an
\* int `'apk' in x` raises TypeError.
FDroidMetadataGenerator_get_android_download_url(v) ==
    IF v.t # "dict" THEN Raise
    ELSE
      LET downloads == VGetD(v, "downloads", Dict(<<>>)) IN
      IF ~IsDict(downloads) THEN Raise
      ELSE
        LET android_downloads == Get(downloads, Android, Dict(<<>>)) IN
        IF ~Truthy(android_downloads) THEN NoneV
        ELSE CASE IsDict(android_downloads) ->
                    IF Has(android_downloads, apk) /\ Truthy(Item(android_downloads, apk))
                    THEN Item(android_downloads, apk) ELSE NoneV
               [] IsStr(android_downloads) ->
                    IF Contains(android_downloads.s, apk) THEN Raise ELSE NoneV
               [] OTHER -> Raise

\* the macOS list with arm64 moved to the front
MacArchs_Arm64First == <<arm64, universal, x86_64>>

MacArchs          == <<universal, arm64, x86_64>>
LinuxPackageTypes == <<appimage, zip, deb, rpm>>
TapWindowsTypes   == <<zip, exe, msi>>
WingetTypes       == <<exe, msi, msix, zip>>
PkgArchs          == <<x86_64, arm64>>

\* for package_type in types: if package_type in pd: a dict is probed by
\* architecture, a non-empty str is returned
RECURSIVE ProbePackages(_, _, _)
ProbePackages(pd, types, j) ==
    IF j > Len(types) THEN Miss
    ELSE IF ~Has(pd, types[j]) THEN ProbePackages(pd, types, j + 1)
    ELSE
      LET pkg_data == Item(pd, types[j])
          hit == IF IsDict(pkg_data) THEN ProbeKeys(pkg_data, PkgArchs, 1)
                 ELSE IF IsStr(pkg_data) /\ Truthy(pkg_data) THEN pkg_data
                 ELSE Miss
      IN  IF hit # Miss THEN hit ELSE ProbePackages(pd, types, j + 1)

\* for arch_key, arch_value in value.items(): first str that starts with http
RECURSIVE ScanArch(_, _)
ScanArch(value, j) ==
    IF j > Len(value.d) THEN Miss
    ELSE IF IsStr(value.d[j][2]) /\ StartsWith(value.d[j][2].s, HTTP) THEN value.d[j][2]
    ELSE ScanArch(value, j + 1)

\* the "Fallback" loop over platform_downloads.items()
RECURSIVE Fallback(_, _)
Fallback(pd, j) ==
    IF j > Len(pd.d) THEN Miss
    ELSE
      LET value == pd.d[j][2]
          hit == IF IsDict(value) THEN ScanArch(value, 1)
                 ELSE IF IsStr(value) /\ StartsWith(value.s, HTTP) THEN value
                 ELSE Miss
      IN  IF hit # Miss THEN hit ELSE Fallback(pd, j + 1)

\* build.py: HomebrewBuilder.get_download_url_for_platform
\* A platform entry that is truthy but no dict (a str, a number) raises: a
\* str either hits `arch in str` and is then indexed by a str (TypeError) or
\* reaches .items() (AttributeError).
HomebrewBuilder_get_download_url_for_platform(v, p) ==
    IF v.t # "dict" THEN Raise
    ELSE
      LET downloads == VGetD(v, "downloads", Dict(<<>>)) IN
      IF ~IsDict(downloads) THEN Raise
      ELSE
        LET platform_downloads == Get(downloads, p, Dict(<<>>)) IN
        IF ~Truthy(platform_downloads) THEN NoneV
        ELSE IF ~IsDict(platform_downloads) THEN Raise
        ELSE
          LET preferred ==
                IF p = macOS THEN ProbeKeys(platform_downloads, MacArchs, 1)
                ELSE IF p = Linux
                THEN ProbePackages(platform_downloads, LinuxPackageTypes, 1)
                ELSE Miss
              scanned == Fallback(platform_downloads, 1)
          IN  IF preferred # Miss THEN preferred
              ELSE IF scanned # Miss THEN scanned
              ELSE NoneV

\* build_homebrew_tap.py: HomebrewFormulaGenerator.get_download_url_for_platform
HomebrewFormulaGenerator_get_download_url_for_platform(v, p) ==
    IF v.t # "dict" THEN Raise
    ELSE
      LET downloads == VGetD(v, "downloads", Dict(<<>>)) IN
      IF ~IsDict(downloads) THEN Raise
      ELSE
        LET platform_downloads == Get(downloads, p, Dict(<<>>)) IN
        IF ~Truthy(platform_downloads) THEN NoneV
        ELSE IF ~IsDict(platform_downloads) THEN Raise
        ELSE
          LET preferred ==
                CASE p = macOS   -> ProbeKeys(platform_downloads, MacArchs, 1)
                  [] p = Linux   -> ProbePackages(platform_downloads, LinuxPackageTypes, 1)
                  [] p = Windows -> ProbePackages(platform_downloads, TapWindowsTypes, 1)
                  [] OTHER       -> Miss
              scanned == Fallback(platform_downloads, 1)
          IN  IF preferred # Miss THEN preferred
              ELSE IF scanned # Miss THEN scanned
              ELSE NoneV

\* the package-type loop of get_windows_download_url: a str is returned only
\* if it starts with http
RECURSIVE ProbeWindowsPackages(_, _)
ProbeWindowsPackages(pd, j) ==
    IF j > Len(WingetTypes) THEN Miss
    ELSE IF ~Has(pd, WingetTypes[j]) THEN ProbeWindowsPackages(pd, j + 1)
    ELSE
      LET pkg_data == Item(pd, WingetTypes[j])
          hit == IF IsDict(pkg_data) THEN ProbeKeys(pkg_data, PkgArchs, 1)
                 ELSE IF IsStr(pkg_data) /\ StartsWith(pkg_data.s, HTTP) THEN pkg_data
                 ELSE Miss
      IN  IF hit # Miss THEN hit ELSE ProbeWindowsPackages(pd, j + 1)

\* build_winget_repo.py: WingetManifestGenerator.get_windows_download_url
\* There is no scan after the package-type loop.  A str platform entry
\* raises as soon as a package type is a substring of it, a number at once.
WingetManifestGenerator_get_windows_download_url(v) ==
    IF v.t # "dict" THEN Raise
    ELSE
      LET downloads == VGetD(v, "downloads", Dict(<<>>)) IN
      IF ~IsDict(downloads) THEN Raise
      ELSE
        LET windows_downloads == Get(downloads, Windows, Dict(<<>>)) IN
        IF ~Truthy(windows_downloads) THEN NoneV
        ELSE CASE IsDict(windows_downloads) ->
                    LET hit == ProbeWindowsPackages(windows_downloads, 1)
                    IN  IF hit # Miss THEN hit ELSE NoneV
               [] IsStr(windows_downloads) ->
                    IF \E j \in 1..Len(WingetTypes) :
                          Contains(windows_downloads.s, WingetTypes[j])
                    THEN Raise ELSE NoneV
               [] OTHER -> Raise

-----------------------------------------------------------------------------
(* Version records *)

List(x) == [t |-> "list", s |-> <<>>, d |-> x, n |-> 0]

\* a version record of the catalog: a JSON object with these keys
Ver(dl, pi, url, plats, vs) ==
    [t |-> "dict", downloads |-> dl, platformInstall |-> pi, downloadURL |-> url,
     platforms |-> plats, version |-> vs]

\* a version entry that is no JSON object
GarbageVersion ==
    [t |-> "str", downloads |-> AbsentV, platformInstall |-> AbsentV,
     downloadURL |-> AbsentV, platforms |-> AbsentV, version |-> AbsentV]

-----------------------------------------------------------------------------
(* Bounds and the inputs of a resolver run *)

MaxEntries == 2      \* items of a generated platform dict

Url(k)   == HTTP \o <<":">> \o k
Pad(x)   == <<" ">> \o x
Trail(x) == x \o <<" ">>
Blank    == <<" ">>
Text     == <<"f","t","p",":","x">>

dmg      == <<"d","m","g">>
snap     == <<"s","n","a","p">>
portable == <<"p","o","r","t","a","b","l","e">>
aab      == <<"a","a","b">>
i386     == <<"i","3","8","6">>
deep     == <<"d","e","e","p">>

KeysDistinct(q) == \A a, b \in DOMAIN q : a # b => q[a][1] # q[b][1]

\* the index form of a dict of len items over nk keys with nv candidate
\* values each: <<key index, value index>> pairs with distinct key indices
IndexSeqs(nk, nv, len) ==
    {q \in [1..len -> (1..nk) \X (1..nv)] : KeysDistinct(q)}

\* the dicts of at most max items over keys, in every insertion order;
\* vals[ki] lists the values the ki-th key may hold
DictsOf(keys, vals, max) ==
    LET nk == Len(keys)
        nv == Len(vals[1])
        shapes == UNION {IndexSeqs(nk, nv, len) : len \in 0..max}
        item == [ki \in 1..nk |-> [vi \in 1..nv |-> <<keys[ki], vals[ki][vi]>>]]
    IN {Dict([j \in DOMAIN q |-> item[q[j][1]][q[j][2]]]) : q \in shapes}

MobileLeaves(tag) ==
    {Str(<<>>), Str(Blank), Str(Url(tag)), Str(Pad(Url(tag))), Str(Trail(Url(tag))),
     Str(Text), NoneV, Num(7)}

IosVersions ==
    {Ver(dl, pi, url, AbsentV, AbsentV) :
        dl \in {AbsentV, NoneV, Dict(<<>>), Dict(<< <<Android, Str(Url(apk))>> >>)}
                \cup {Dict(<< <<iOS, x>> >>) : x \in MobileLeaves(<<"d">>)},
        pi \in {AbsentV, NoneV, Dict(<<>>)}
                \cup {Dict(<< <<iOS, x>> >>) : x \in MobileLeaves(<<"p">>)},
        url \in {AbsentV} \cup MobileLeaves(<<"t">>)}
    \cup {GarbageVersion}

AndroidKeys == <<apk, universal, x86, aab>>
AndroidItemVals == [ki \in 1..Len(AndroidKeys) |->
                       <<Str(<<>>), Str(Url(AndroidKeys[ki])), Num(7)>>]

AndroidVersions ==
    {Ver(dl, AbsentV, url, AbsentV, AbsentV) :
        dl \in {AbsentV, NoneV, Dict(<<>>), Dict(<< <<iOS, Str(Url(<<"d">>))>> >>)}
                \cup {Dict(<< <<Android, x>> >>) :
                        x \in {Str(<<>>), Str(Blank), Str(Url(apk)), Str(Url(<<"b">>)),
                               Str(Pad(Url(apk))), NoneV, Num(7)}
                              \cup DictsOf(AndroidKeys, AndroidItemVals, MaxEntries)},
        url \in {AbsentV, Str(<<>>), Str(Url(<<"t">>)), Str(Text)}}
    \cup {GarbageVersion}

PlatKeys(p) ==
    CASE p = macOS   -> <<universal, arm64, x86_64, dmg>>
      [] p = Linux   -> <<appimage, zip, deb, rpm, snap>>
      [] p = Windows -> <<exe, msi, msix, zip, portable>>

\* what a package type or architecture key k may hold: strings, and
\* architecture maps
PackageVals(k) ==
    LET u(a) == Str(Url(k \o <<"/">> \o a)) IN
    <<Str(<<>>), Str(Url(k)), Str(Text), Num(7),
      Dict(<<>>),
      Dict(<< <<x86_64, Str(<<>>)>> >>),
      Dict(<< <<x86_64, u(x86_64)>> >>),
      Dict(<< <<arm64, u(arm64)>>, <<x86_64, u(x86_64)>> >>),
      Dict(<< <<x86_64, Str(<<>>)>>, <<arm64, u(arm64)>> >>),
      Dict(<< <<i386, u(i386)>> >>),
      Dict(<< <<i386, Dict(<< <<deep, u(deep)>> >>)>> >>)>>

PlatVals(p) == [ki \in 1..Len(PlatKeys(p)) |-> PackageVals(PlatKeys(p)[ki])]

DesktopVersions(p) ==
    {Ver(dl, AbsentV, AbsentV, AbsentV, AbsentV) :
        dl \in {AbsentV, NoneV, Dict(<<>>), Dict(<< <<iOS, Str(Url(<<"d">>))>> >>)}
                \cup {Dict(<< <<p, x>> >>) :
                        x \in {NoneV, Str(<<>>), Str(Url(exe)), Str(Url(<<"b">>)), Num(7)}
                              \cup DictsOf(PlatKeys(p), PlatVals(p), MaxEntries)}}
    \cup {GarbageVersion}

Platforms == {iOS, Android, macOS, Linux, Windows}

VersionsFor(p) ==
    CASE p = iOS     -> IosVersions
      [] p = Android -> AndroidVersions
      [] OTHER       -> DesktopVersions(p)

-----------------------------------------------------------------------------
(* A resolver run: one call of one resolver on one version record *)

Resolvers ==
    {"AltStoreBuilder.extract_ipa_url", "AltStoreRepoBuilder.extract_ipa_url",
     "FDroidBuilder.extract_apk_url", "FDroidMetadataGenerator.get_android_download_url",
     "HomebrewBuilder.get_download_url_for_platform",
     "HomebrewFormulaGenerator.get_download_url_for_platform",
     "WingetManifestGenerator.get_windows_download_url"}

\* what resolver r returns for version record v (and platform p)
Resolve(r, v, p) ==
    CASE r = "AltStoreBuilder.extract_ipa_url" -> AltStoreBuilder_extract_ipa_url(v)
      [] r = "AltStoreRepoBuilder.extract_ipa_url" -> AltStoreRepoBuilder_extract_ipa_url(v)
      [] r = "FDroidBuilder.extract_apk_url" -> FDroidBuilder_extract_apk_url(v)
      [] r = "FDroidMetadataGenerator.get_android_download_url" ->
            FDroidMetadataGenerator_get_android_download_url(v)
      [] r = "HomebrewBuilder.get_download_url_for_platform" ->
            HomebrewBuilder_get_download_url_for_platform(v, p)
      [] r = "HomebrewFormulaGenerator.get_download_url_for_platform" ->
            HomebrewFormulaGenerator_get_download_url_for_platform(v, p)
      [] r = "WingetManifestGenerator.get_windows_download_url" ->
            WingetManifestGenerator_get_windows_download_url(v)

\* the platform each caller resolves for
CallerPlatforms(r) ==
    CASE r \in {"AltStoreBuilder.extract_ipa_url", "AltStoreRepoBuilder.extract_ipa_url"}
            -> {iOS}
      [] r \in {"FDroidBuilder.extract_apk_url",
                "FDroidMetadataGenerator.get_android_download_url"} -> {Android}
      [] r = "HomebrewBuilder.get_download_url_for_platform" -> {macOS, Linux}
      [] r = "HomebrewFormulaGenerator.get_download_url_for_platform"
            -> {macOS, Linux, Windows}
      [] r = "WingetManifestGenerator.get_windows_download_url" -> {Windows}

IdleBatch ==
    /\ prog = [script |-> "none", targets |-> {}, platform |-> "none", opt_in |-> FALSE]
    /\ apps = <<>>
    /\ pc = "idle"
    /\ idx = 0
    /\ generated_count = 0
    /\ failed_count = 0
    /\ entries = <<>>
    /\ files = {}
    /\ results = [t \in {} |-> FALSE]
    /\ homebrew_results = <<>>
    /\ exit_code = -1
    /\ trail = <<>>
    /\ requests = {}

InitResolver ==
    /\ platform \in Platforms
    /\ version \in VersionsFor(platform)
    /\ called = ""
    /\ result = Pending
    /\ again = Pending
    /\ arg = NoneV
    /\ IdleBatch

\* the version record as a popping resolver would leave it
After_Popped(r, v, p) ==
    IF v.t = "dict" THEN [v EXCEPT !.downloads = AbsentV, !.platformInstall = AbsentV,
                                   !.downloadURL = AbsentV]
    ELSE v

\* the version record after a call of resolver r: the resolvers use only
\* .get, `in`, [] and .items() on it, and strip() returns a new str
After(r, v, p) == v

Call(r) ==
    /\ called = ""
    /\ platform \in CallerPlatforms(r)
    /\ called' = r
    /\ result' = Resolve(r, version, platform)
    /\ version' = After(r, version, platform)
    /\ UNCHANGED <<platform, again, arg>>
    /\ UNCHANGED batchVars

CallExtractIpaUrl        == Call("AltStoreBuilder.extract_ipa_url")
CallRepoExtractIpaUrl    == Call("AltStoreRepoBuilder.extract_ipa_url")
CallExtractApkUrl        == Call("FDroidBuilder.extract_apk_url")
CallGetAndroidDownloadUrl == Call("FDroidMetadataGenerator.get_android_download_url")
CallBuilderGetDownloadUrl == Call("HomebrewBuilder.get_download_url_for_platform")
CallTapGetDownloadUrl    == Call("HomebrewFormulaGenerator.get_download_url_for_platform")
CallGetWindowsDownloadUrl == Call("WingetManifestGenerator.get_windows_download_url")

NextResolver ==
    \/ CallExtractIpaUrl
    \/ CallRepoExtractIpaUrl
    \/ CallExtractApkUrl
    \/ CallGetAndroidDownloadUrl
    \/ CallBuilderGetDownloadUrl
    \/ CallTapGetDownloadUrl
    \/ CallGetWindowsDownloadUrl

SpecResolver == InitResolver /\ [][NextResolver]_vars

(* Two calls of one resolver on one version record *)

RecallEntries == 1   \* items of the platform dict of a record resolved twice

\* the number of items of the dict stored for platform p
PlatformItems(v, p) ==
    IF v.t = "dict" /\ IsDict(v.downloads) /\ Has(v.downloads, p)
       /\ IsDict(Item(v.downloads, p))
    THEN Len(Item(v.downloads, p).d)
    ELSE 0

InitRecall ==
    /\ platform \in Platforms
    /\ version \in {v \in VersionsFor(platform) : PlatformItems(v, platform) <= RecallEntries}
    /\ called = ""
    /\ result = Pending
    /\ again = Pending
    /\ arg = NoneV
    /\ IdleBatch

\* the caller calls the resolver it called before, on the same record
Recall(r) ==
    /\ called = r
    /\ again = Pending
    /\ again' = Resolve(r, version, platform)
    /\ version' = After(r, version, platform)
    /\ UNCHANGED <<platform, called, result, arg>>
    /\ UNCHANGED batchVars

RecallExtractIpaUrl        == Recall("AltStoreBuilder.extract_ipa_url")
RecallRepoExtractIpaUrl    == Recall("AltStoreRepoBuilder.extract_ipa_url")
RecallExtractApkUrl        == Recall("FDroidBuilder.extract_apk_url")
RecallGetAndroidDownloadUrl == Recall("FDroidMetadataGenerator.get_android_download_url")
RecallBuilderGetDownloadUrl == Recall("HomebrewBuilder.get_download_url_for_platform")
RecallTapGetDownloadUrl    == Recall("HomebrewFormulaGenerator.get_download_url_for_platform")
RecallGetWindowsDownloadUrl == Recall("WingetManifestGenerator.get_windows_download_url")

NextRecall ==
    \/ CallExtractIpaUrl
    \/ CallRepoExtractIpaUrl
    \/ CallExtractApkUrl
    \/ CallGetAndroidDownloadUrl
    \/ CallBuilderGetDownloadUrl
    \/ CallTapGetDownloadUrl
    \/ CallGetWindowsDownloadUrl
    \/ RecallExtractIpaUrl
    \/ RecallRepoExtractIpaUrl
    \/ RecallExtractApkUrl
    \/ RecallGetAndroidDownloadUrl
    \/ RecallBuilderGetDownloadUrl
    \/ RecallTapGetDownloadUrl
    \/ RecallGetWindowsDownloadUrl

SpecRecall == InitRecall /\ [][NextRecall]_vars

-----------------------------------------------------------------------------
(* Identifier sanitizers *)

Lowers == <<"a","b","c","d","e","f","g","h","i","j","k","l","m",
            "n","o","p","q","r","s","t","u","v","w","x","y","z">>
Uppers == <<"A","B","C","D","E","F","G","H","I","J","K","L","M",
            "N","O","P","Q","R","S","T","U","V","W","X","Y","Z">>
Digits == {"0","1","2","3","4","5","6","7","8","9"}

IsLower(c) == \E j \in 1..26 : Lowers[j] = c
IsUpper(c) == \E j \in 1..26 : Uppers[j] = c
IsAlpha(c) == IsLower(c) \/ IsUpper(c)
IsAlnum(c) == IsAlpha(c) \/ c \in Digits

LowerChar(c) == IF IsUpper(c) THEN Lowers[CHOOSE j \in 1..26 : Uppers[j] = c] ELSE c
UpperChar(c) == IF IsLower(c) THEN Uppers[CHOOSE j \in 1..26 : Lowers[j] = c] ELSE c

\* s.lower()
Lower(s) == [j \in 1..Len(s) |-> LowerChar(s[j])]

\* s.title(): a letter that follows a letter is lowered, any other letter raised
Title(s) ==
    [j \in 1..Len(s) |->
        IF j > 1 /\ IsAlpha(s[j - 1]) THEN LowerChar(s[j]) ELSE UpperChar(s[j])]

IsPackageChar(c) == IsAlnum(c) \/ c = "."

\* sanitize_name(name, 'class') without the 'App' prefix
sanitize_name_class_NoPrefix(name) == SelectSeq(Title(name), IsAlnum)

\* build.py: sanitize_name(name, 'class')
sanitize_name_class(name) ==
    LET sanitized == SelectSeq(Title(name), IsAlnum) IN
    IF sanitized # <<>> /\ ~IsAlpha(sanitized[1])
    THEN <<"A","p","p">> \o sanitized
    ELSE sanitized

\* build.py: sanitize_name(name, 'package')
sanitize_name_package(name) == SelectSeq(Lower(name), IsPackageChar)

\* build_fdroid_repo.py: sanitize_package_id with no usable bundle id
FDroidMetadataGenerator_sanitize_package_id(name) ==
    <<"i","n","k",".","o","p","e","n","l","y","s","t",".">> \o SelectSeq(Lower(name), IsAlnum)

\* build_winget_repo.py: sanitize_package_id(name) with publisher "OpenLyst"
Publisher == <<"O","p","e","n","L","y","s","t">>
WingetManifestGenerator_sanitize_package_id(name) ==
    Publisher \o <<".">> \o SelectSeq(Title(name), IsAlnum)

\* build_winget_repo.py: create_manifest_directory, for a package id
\* "OpenLyst.<name>": manifests/OpenLyst/<name>/<version>
WingetManifestGenerator_create_manifest_directory(package_id, v) ==
    Publisher \o <<"/">> \o SubSeq(package_id, Len(Publisher) + 2, Len(package_id))
        \o <<"/">> \o v

-----------------------------------------------------------------------------
(* The catalog: application records and the version lists the API serves *)

MaxApps == 3

AllPlatforms == <<iOS, Android, macOS, Linux, Windows>>
V10 == <<"1", ".", "0">>

\* a version with an artifact for every platform
GoodDownloads ==
    Dict(<< <<iOS, Str(Url(<<"i">>))>>,
            <<Android, Dict(<< <<apk, Str(Url(<<"a">>))>> >>)>>,
            <<macOS, Dict(<< <<universal, Str(Url(<<"m">>))>> >>)>>,
            <<Linux, Dict(<< <<appimage, Str(Url(<<"l">>))>> >>)>>,
            <<Windows, Dict(<< <<exe, Str(Url(<<"w">>))>> >>)>> >>)

GoodVersion == Ver(GoodDownloads, AbsentV, AbsentV, List(AllPlatforms), Str(V10))
\* no artifact and no platform listed
BareVersion == Ver(Dict(<<>>), AbsentV, AbsentV, List(<<>>), Str(V10))
\* platforms listed, but no download entry for any of them
ListedVersion == Ver(Dict(<<>>), AbsentV, AbsentV, List(AllPlatforms), Str(V10))
\* artifacts for every platform, but no 'version' field
UnnumberedVersion == Ver(GoodDownloads, AbsentV, AbsentV, List(AllPlatforms), AbsentV)

AppKinds ==
    {"good", "bare", "listed", "unnumbered", "garbage", "late", "trailing",
     "noslug", "nofetch", "notdict", "twin"}

\* what get_app_versions(slug) returns for an application of kind k
VersionsOf(k) ==
    CASE k = "good" -> <<GoodVersion>>
      [] k = "bare" -> <<BareVersion>>
      [] k = "listed" -> <<ListedVersion>>
      [] k = "unnumbered" -> <<UnnumberedVersion>>
      [] k = "garbage" -> <<GarbageVersion>>
      [] k = "late" -> <<BareVersion, GoodVersion>>
      [] k = "trailing" -> <<GoodVersion, GarbageVersion>>
      [] k = "noslug" -> <<GoodVersion>>
      [] k = "twin" -> <<GoodVersion>>
      [] k = "nofetch" -> <<>>
      [] OTHER -> <<>>

DigitOf(i) == <<"0","1","2","3","4","5","6","7","8","9">>[i + 1]

\* the i-th record of the fetched catalog: slugs are unique per catalog, and
\* so are names, but a "twin" is named "App-1" beside the first one's "app 1"
App(k, i) ==
    [t |-> IF k = "notdict" THEN "str" ELSE "dict",
     slug |-> IF k = "noslug" THEN AbsentV ELSE Str(<<"s", DigitOf(i)>>),
     name |-> IF k = "twin" THEN Str(<<"A", "p", "p", "-", DigitOf(1)>>)
              ELSE Str(<<"a", "p", "p", " ", DigitOf(i)>>),
     subtitle |-> AbsentV,
     bundleIdentifier |-> AbsentV,
     versions |-> VersionsOf(k)]

Catalogs ==
    UNION {[1..n -> AppKinds] : n \in 0..MaxApps}

CatalogOf(kinds) == [i \in 1..Len(kinds) |-> App(kinds[i], i)]

\* app.get(field, default) on an application record
AGet(app, field, default) ==
    IF app.t # "dict" THEN Raise
    ELSE LET x == CASE field = "slug" -> app.slug
                    [] field = "name" -> app.name
                    [] field = "subtitle" -> app.subtitle
                    [] OTHER -> app.bundleIdentifier
         IN IF x = AbsentV THEN default ELSE x

\* app[field]: KeyError when the field is missing
AItem(app, field) == AGet(app, field, Raise)

\* x in app_platforms, for app_platforms = latest_version.get('platforms', [])
\* "True", "False", or "raise" when the version is no dict or the field is
\* no container
PlatformListed(v, p) ==
    IF v.t # "dict" THEN "raise"
    ELSE LET app_platforms == VGetD(v, "platforms", List(<<>>))
             Bool(b) == IF b THEN "True" ELSE "False"
         IN IF app_platforms.t = "list"
            THEN Bool(\E j \in 1..Len(app_platforms.d) : app_platforms.d[j] = p)
            ELSE IF app_platforms.t = "str" THEN Bool(Contains(app_platforms.s, p))
            ELSE IF app_platforms.t = "dict" THEN Bool(Has(app_platforms, p))
            ELSE "raise"

-----------------------------------------------------------------------------
(* The emitters: what one application makes an emitter return and write *)

\* ret: what the emitter returns ("raise": an exception leaves it);
\* path: the branch taken; files: the directories and files it creates
Out(ret, path, fs) == [ret |-> ret, path |-> path, files |-> fs]
File(name) == [kind |-> "file", name |-> name]
Directory(name) == [kind |-> "dir", name |-> name]

AltStoreCap == 10
FDroidCap == 5

Min(a, b) == IF a < b THEN a ELSE b
\* q[:n] without the cap
Take_All(q, n) == q
\* q[:n]
Take(q, n) == SubSeq(q, 1, Min(n, Len(q)))

\* build.py: the body of the version loop of build_app_entry, "raise" when
\* the resolver raises
IpaRaises(v) == v.t = "dict" /\ AltStoreBuilder_extract_ipa_url(v) = Raise
IpaUsable(v) == v.t = "dict" /\ Truthy(AltStoreBuilder_extract_ipa_url(v))
\* build.py: `if apk:` on what extract_apk_url returns
ApkUsable(v) == Truthy(FDroidBuilder_extract_apk_url(v))

\* the downloadURL values of the version entries build_app_entry emits
AltStoreBuilder_altstore_versions(app) ==
    LET usable == SelectSeq(Take(app.versions, AltStoreCap), IpaUsable)
    IN [j \in 1..Len(usable) |-> AltStoreBuilder_extract_ipa_url(usable[j])]

\* build.py: AltStoreBuilder.build_app_entry
AltStoreBuilder_build_app_entry(app) ==
    LET head == Take(app.versions, AltStoreCap)
    IN IF app.versions = <<>> THEN Out("None", "skipped", {})
       ELSE IF \E j \in 1..Len(head) : IpaRaises(head[j]) THEN Out("None", "failed", {})
       ELSE IF AltStoreBuilder_altstore_versions(app) = <<>> THEN Out("None", "skipped", {})
       ELSE Out("app_entry", "written", {})

\* build.py: the has_android loop of FDroidBuilder.build
RECURSIVE HasAndroid(_)
HasAndroid(versions) ==
    IF versions = <<>> THEN "False"
    ELSE LET r == FDroidBuilder_extract_apk_url(Head(versions)) IN
         IF r = Raise THEN "raise"
         ELSE IF Truthy(r) THEN "True"
         ELSE HasAndroid(Tail(versions))

\* build.py: FDroidBuilder.build_metadata_yml -> "metadata", "None" or "raise"
FDroidBuilder_build_metadata_yml(app, versions) ==
    IF versions = <<>> THEN "None"
    ELSE LET latest_version == versions[1]
             apk_url == FDroidBuilder_extract_apk_url(latest_version)
             name == AGet(app, "name", Str(<<"U","n","k","n","o","w","n">>))
             head == Take(versions, FDroidCap)
         IN IF apk_url = Raise THEN "raise"
            ELSE IF ~Truthy(apk_url) THEN "None"
            ELSE IF ~IsStr(name) THEN "raise"
            ELSE IF ~IsStr(AGet(app, "subtitle", name)) THEN "raise"
            ELSE IF \E j \in 1..Len(head) :
                        \/ head[j].t # "dict"
                        \/ FDroidBuilder_extract_apk_url(head[j]) = Raise
                 THEN "raise"
            ELSE "metadata"

YmlSuffix == <<".","y","m","l">>

\* build.py: the body of the application loop of FDroidBuilder.build after
\* the slug test
FDroidBuilder_build_app(app) ==
    LET versions == app.versions
        has_android == HasAndroid(versions)
        metadata == FDroidBuilder_build_metadata_yml(app, versions)
        name == AGet(app, "name", app.slug)
        package_id == AGet(app, "bundleIdentifier", Str(sanitize_name_package(name.s)))
    IN IF versions = <<>> THEN Out("continue", "skipped", {})
       ELSE IF has_android = "raise" THEN Out("raise", "aborted", {})
       ELSE IF has_android = "False" THEN Out("continue", "skipped", {})
       ELSE IF metadata = "raise" THEN Out("raise", "aborted", {})
       ELSE IF metadata = "None" THEN Out("apps_data", "indexed", {})
       ELSE IF ~IsStr(name) THEN Out("raise", "aborted", {})
       ELSE Out("apps_data", "written", {File(package_id.s \o YmlSuffix)})

RbSuffix == <<".","r","b">>
LinuxSuffix == <<"-","l","i","n","u","x">>

\* build.py: HomebrewBuilder.generate_formula_content -> "content", or the
\* exception it raises
HomebrewBuilder_generate_formula_content(app, v, p) ==
    LET download_url == HomebrewBuilder_get_download_url_for_platform(v, p) IN
    IF ~IsStr(AItem(app, "name")) THEN "Exception"
    ELSE IF download_url = Raise THEN "Exception"
    ELSE IF ~Truthy(download_url) THEN "ValueError"
    ELSE IF ~IsStr(download_url) THEN "Exception"
    ELSE IF ~IsStr(AGet(app, "subtitle", AGet(app, "name", Str(<<>>)))) THEN "Exception"
    ELSE IF v.version = AbsentV THEN "Exception"
    ELSE "content"

\* build.py: HomebrewBuilder.generate_formula
HomebrewBuilder_generate_formula(app, versions, p) ==
    IF versions = <<>> THEN Out("False", "skipped", {})
    ELSE LET latest_version == versions[1]
             listed == PlatformListed(latest_version, p)
             formula_content == HomebrewBuilder_generate_formula_content(app, latest_version, p)
             suffix == IF p = Linux THEN LinuxSuffix ELSE <<>>
             filename == Lower(sanitize_name_class(app.name.s)) \o suffix \o RbSuffix
         IN IF listed = "raise" THEN Out("raise", "aborted", {})
            ELSE IF listed = "False" THEN Out("False", "skipped", {})
            ELSE IF formula_content = "ValueError" THEN Out("False", "skipped", {})
            ELSE IF formula_content = "Exception" THEN Out("False", "failed", {})
            ELSE Out("True", "written", {File(filename)})

\* build_fdroid_repo.py: FDroidMetadataGenerator.generate_metadata_file ->
\* "True", or the exception it raises
FDroidMetadataGenerator_generate_metadata_file(app, versions) ==
    LET latest_version == versions[1]
        download_url == FDroidMetadataGenerator_get_android_download_url(latest_version)
    IN IF download_url = Raise THEN "Exception"
       ELSE IF ~Truthy(download_url) THEN "ValueError"
       ELSE IF latest_version.version = AbsentV THEN "Exception"
       ELSE "True"

\* build_fdroid_repo.py: FDroidMetadataGenerator.generate_metadata_for_app
FDroidMetadataGenerator_generate_metadata_for_app(app, versions) ==
    IF versions = <<>> THEN Out("None", "skipped", {})
    ELSE LET latest_version == versions[1]
             listed == PlatformListed(latest_version, Android)
             bundle_id == AGet(app, "bundleIdentifier", Str(<<>>))
             package_id ==
                 IF Truthy(bundle_id) /\ bundle_id # Str(<<"u","n","k","n","o","w","n">>)
                 THEN bundle_id.s
                 ELSE FDroidMetadataGenerator_sanitize_package_id(app.name.s)
             written == FDroidMetadataGenerator_generate_metadata_file(app, versions)
         IN IF listed = "raise" THEN Out("raise", "aborted", {})
            ELSE IF listed = "False" THEN Out("None", "skipped", {})
            ELSE IF ~IsStr(AItem(app, "name")) THEN Out("None", "failed", {})
            ELSE IF written = "ValueError" THEN Out("None", "skipped", {})
            ELSE IF written = "Exception" THEN Out("None", "failed", {})
            ELSE Out("app_info", "written", {File(package_id \o YmlSuffix)})

Slash == <<"/">>
InstallerSuffix == <<".","i","n","s","t","a","l","l","e","r",".","y","a","m","l">>
LocaleSuffix == <<".","l","o","c","a","l","e",".","e","n","-","U","S",".","y","a","m","l">>
YamlSuffix == <<".","y","a","m","l">>

\* build_winget_repo.py: WingetManifestGenerator.generate_manifests
WingetManifestGenerator_generate_manifests(app, versions) ==
    IF versions = <<>> THEN Out("False", "skipped", {})
    ELSE LET latest_version == versions[1]
             listed == PlatformListed(latest_version, Windows)
             package_id == WingetManifestGenerator_sanitize_package_id(app.name.s)
             version_str == latest_version.version
             manifest_dir ==
                 WingetManifestGenerator_create_manifest_directory(package_id, version_str.s)
             download_url == WingetManifestGenerator_get_windows_download_url(latest_version)
             InDir(suffix) == File(manifest_dir \o Slash \o package_id \o suffix)
         IN IF listed = "raise" THEN Out("raise", "aborted", {})
            ELSE IF listed = "False" THEN Out("False", "skipped", {})
            ELSE IF ~IsStr(AItem(app, "name")) THEN Out("False", "failed", {})
            ELSE IF ~IsStr(version_str) THEN Out("False", "failed", {})
            ELSE IF download_url = Raise THEN Out("False", "failed", {Directory(manifest_dir)})
            ELSE IF ~Truthy(download_url)
                 THEN Out("False", "skipped", {Directory(manifest_dir)})
            ELSE IF ~IsStr(download_url)
                 THEN Out("False", "failed", {Directory(manifest_dir)})
            ELSE Out("True", "written",
                     {Directory(manifest_dir), InDir(InstallerSuffix),
                      InDir(LocaleSuffix), InDir(YamlSuffix)})

-----------------------------------------------------------------------------
(* The HTTP requests the emitters issue for artifact URLs.  A request that  *)
(* raises is caught by the helper that issued it; the requests listed are  *)
(* those of a network that answers.  HEAD asks for the headers only, GET   *)
(* transfers the whole body.                                               *)

Request(method, url) == [method |-> method, url |-> url]

\* build.py: get_file_size(ipa_url) for every usable version build_app_entry
\* comes to, then extract_permissions_from_ipa(latest_ipa) once the entry is
\* built: session.get(ipa_url, stream=True) read to its end
AltStoreBuilder_build_app_entry_requests(app) ==
    LET head == Take(app.versions, AltStoreCap)
        raising == {j \in 1..Len(head) : IpaRaises(head[j])}
        stop == IF raising = {} THEN Len(head)
                ELSE (CHOOSE j \in raising : \A k \in raising : j <= k) - 1
        sized == {j \in 1..stop : IpaUsable(head[j])}
        altstore_versions == AltStoreBuilder_altstore_versions(app)
    IN {Request("HEAD", AltStoreBuilder_extract_ipa_url(head[j]).s) : j \in sized}
       \cup (IF AltStoreBuilder_build_app_entry(app).ret = "app_entry"
             THEN {Request("GET", altstore_versions[1].s)}
             ELSE {})

\* build.py: get_file_size(apk_url) for the package versions of one
\* application in FDroidBuilder.build_index_json
FDroidBuilder_build_index_json_requests(versions) ==
    LET usable == SelectSeq(Take(versions, FDroidCap), ApkUsable)
    IN {Request("HEAD", FDroidBuilder_extract_apk_url(usable[j]).s) : j \in 1..Len(usable)}

\* build.py: get_sha256(download_url) in generate_formula_content, reached
\* with calculate_sha256 once the name and the URL have been read
HomebrewBuilder_generate_formula_requests(app, versions, p, calculate_sha256) ==
    IF versions = <<>> THEN {}
    ELSE LET latest_version == versions[1]
             download_url == HomebrewBuilder_get_download_url_for_platform(latest_version, p)
         IN IF PlatformListed(latest_version, p) # "True" THEN {}
            ELSE IF ~IsStr(AItem(app, "name")) THEN {}
            ELSE IF ~(IsStr(download_url) /\ Truthy(download_url)) THEN {}
            ELSE IF ~calculate_sha256 THEN {}
            ELSE {Request("GET", download_url.s)}

\* build_fdroid_repo.py: get_file_size_and_hash(download_url) in
\* generate_metadata_file, reached with calculate_info: a HEAD, then a GET
FDroidMetadataGenerator_generate_metadata_requests(app, versions, calculate_info) ==
    IF versions = <<>> THEN {}
    ELSE LET latest_version == versions[1]
             download_url == FDroidMetadataGenerator_get_android_download_url(latest_version)
         IN IF PlatformListed(latest_version, Android) # "True" THEN {}
            ELSE IF ~IsStr(AItem(app, "name")) THEN {}
            ELSE IF ~(IsStr(download_url) /\ Truthy(download_url)) THEN {}
            ELSE IF ~calculate_info THEN {}
            ELSE {Request("HEAD", download_url.s), Request("GET", download_url.s)}

\* build_winget_repo.py: get_file_sha256(download_url) in
\* generate_version_manifest, reached with calculate_hash
WingetManifestGenerator_generate_manifests_requests(app, versions, calculate_hash) ==
    IF versions = <<>> THEN {}
    ELSE LET latest_version == versions[1]
             download_url == WingetManifestGenerator_get_windows_download_url(latest_version)
         IN IF PlatformListed(latest_version, Windows) # "True" THEN {}
            ELSE IF ~IsStr(AItem(app, "name")) THEN {}
            ELSE IF ~IsStr(latest_version.version) THEN {}
            ELSE IF ~(IsStr(download_url) /\ Truthy(download_url)) THEN {}
            ELSE IF ~calculate_hash THEN {}
            ELSE {Request("GET", download_url.s)}

-----------------------------------------------------------------------------
(* The batch runs: build.py main and the standalone scripts *)

AllTargets == {"altstore", "fdroid", "homebrew"}

\* the command lines: targets is the set main parses from --target, opt_in
\* tells whether the flags --calculate-sha256 and --calculate-info (build.py),
\* --calculate-info (build_fdroid_repo.py), --calculate-hash
\* (build_winget_repo.py) are given
Programs ==
    {[script |-> "build.py", targets |-> T, platform |-> "both", opt_in |-> FALSE] :
        T \in {AllTargets, {"altstore"}, {"fdroid"}, {"winget"}}}
    \cup {[script |-> "build.py", targets |-> {"homebrew"}, platform |-> pl,
           opt_in |-> FALSE] : pl \in {"macOS", "Linux", "both"}}
    \cup {[script |-> "build.py", targets |-> {"homebrew"}, platform |-> "macOS",
           opt_in |-> TRUE]}
    \cup {[script |-> sc, targets |-> {}, platform |-> "any", opt_in |-> f] :
           sc \in {"build_fdroid_repo.py", "build_winget_repo.py"}, f \in BOOLEAN}

IdleResolver ==
    /\ version = BareVersion
    /\ platform = iOS
    /\ called = "none"
    /\ result = Pending
    /\ again = Pending
    /\ arg = NoneV

InitBatch ==
    /\ IdleResolver
    /\ prog \in Programs
    /\ \E kinds \in Catalogs : apps = CatalogOf(kinds)
    /\ pc = "main"
    /\ idx = 0
    /\ generated_count = 0
    /\ failed_count = 0
    /\ entries = <<>>
    /\ files = {}
    /\ results = [t \in {} |-> FALSE]
    /\ homebrew_results = <<>>
    /\ exit_code = -1
    /\ trail = <<>>
    /\ requests = {}

Frame == UNCHANGED <<version, platform, called, result, again, arg, prog, apps>>

Bool(b) == IF b THEN "True" ELSE "False"

\* what the loop of builder b did with application i, and the counter it raised
Event(b, i, o, counter) ==
    [b |-> b, i |-> i, path |-> o.path, ret |-> o.ret, counter |-> counter]
\* builder b returned value
Returned(b, value) ==
    [b |-> b, i |-> 0, path |-> "return", ret |-> value, counter |-> "none"]
\* the files of outcome o, as written by builder b for application i
Written(b, i, o) ==
    {[b |-> b, kind |-> f.kind, name |-> f.name, apps |-> {i}] : f \in o.files}
Summary(b, name, members) ==
    [b |-> b, kind |-> "file", name |-> name, apps |-> members]

\* the requests rs, as issued by builder b for application i; none when the
\* loop body left before the emitter was called
Issued(b, i, o, rs) ==
    IF o.path \in {"noslug", "aborted"} THEN {}
    ELSE {[b |-> b, app |-> i, method |-> r.method, url |-> r.url] : r \in rs}

NoSlug == Out("continue", "noslug", {})
Aborted == Out("raise", "aborted", {})

\* results[t] = value
SetResult(t, value) ==
    [x \in DOMAIN results \cup {t} |-> IF x = t THEN value ELSE results[x]]

\* the application loop begins: fresh locals
LoopStart(b) ==
    /\ pc' = b
    /\ idx' = 1
    /\ entries' = <<>>
    /\ generated_count' = 0
    /\ failed_count' = 0

\* what the body of a loop computes for apps[idx]: the slug test, then the
\* emitter, whose outcome is emitted
Body(emitted) ==
    LET app == apps[idx] IN
    IF app.t # "dict" THEN Aborted
    ELSE IF ~Truthy(AGet(app, "slug", NoneV)) THEN NoSlug
    ELSE emitted

AppsJson == <<"a","p","p","s",".","j","s","o","n">>
IndexJson == <<"i","n","d","e","x",".","j","s","o","n">>
TapInfoJson == <<"t","a","p","-","i","n","f","o",".","j","s","o","n">>
RepoInfoJson == <<"r","e","p","o","-","i","n","f","o",".","j","s","o","n">>

Members == {entries[j].app : j \in 1..Len(entries)}

(* build.py main: AltStore *)

\* build.py main, 'altstore' in targets, and AltStoreBuilder.build up to its loop
MainAltStore ==
    /\ pc = "main"
    /\ prog.script = "build.py"
    /\ IF "altstore" \notin prog.targets
       THEN /\ pc' = "main_fdroid"
            /\ UNCHANGED <<idx, entries, generated_count, failed_count, results, trail>>
       ELSE IF apps = <<>>
       THEN /\ pc' = "main_fdroid"
            /\ results' = SetResult("altstore", FALSE)
            /\ trail' = Append(trail, Returned("altstore", "False"))
            /\ UNCHANGED <<idx, entries, generated_count, failed_count>>
       ELSE /\ LoopStart("altstore")
            /\ UNCHANGED <<results, trail>>
    /\ UNCHANGED <<files, homebrew_results, exit_code, requests>>
    /\ Frame

\* one iteration of the loop of AltStoreBuilder.build
AltStoreStep ==
    /\ pc = "altstore"
    /\ idx <= Len(apps)
    /\ LET o == Body(AltStoreBuilder_build_app_entry(apps[idx])) IN
       IF o.ret = "raise"
       THEN /\ pc' = "main_fdroid"
            /\ results' = SetResult("altstore", FALSE)
            /\ trail' = trail \o <<Event("altstore", idx, o, "none"),
                                   Returned("altstore", "False")>>
            /\ UNCHANGED <<idx, entries, requests>>
       ELSE /\ idx' = idx + 1
            /\ requests' = requests \cup
                 Issued("altstore", idx, o,
                        AltStoreBuilder_build_app_entry_requests(apps[idx]))
            /\ entries' =
                 IF o.ret = "app_entry"
                 THEN Append(entries,
                        [app |-> idx,
                         versions |-> AltStoreBuilder_altstore_versions(apps[idx])])
                 ELSE entries
            /\ trail' = Append(trail, Event("altstore", idx, o, "none"))
            /\ UNCHANGED <<pc, results>>
    /\ UNCHANGED <<generated_count, failed_count, files, homebrew_results, exit_code>>
    /\ Frame

\* AltStoreBuilder.build after its loop
AltStoreFinish ==
    /\ pc = "altstore"
    /\ idx > Len(apps)
    /\ pc' = "main_fdroid"
    /\ results' = SetResult("altstore", entries # <<>>)
    /\ files' =
         IF entries = <<>> THEN files
         ELSE files \cup {Summary("altstore", AppsJson, Members),
                          Summary("altstore", IndexJson, {})}
    /\ trail' = Append(trail, Returned("altstore", Bool(entries # <<>>)))
    /\ UNCHANGED <<idx, entries, generated_count, failed_count, homebrew_results, exit_code>>
    /\ UNCHANGED requests
    /\ Frame

(* build.py main: F-Droid *)

\* build.py main, 'fdroid' in targets, and FDroidBuilder.build up to its loop
MainFDroid ==
    /\ pc = "main_fdroid"
    /\ IF "fdroid" \notin prog.targets
       THEN /\ pc' = "main_homebrew_macOS"
            /\ UNCHANGED <<idx, entries, generated_count, failed_count, results, trail>>
       ELSE IF apps = <<>>
       THEN /\ pc' = "main_homebrew_macOS"
            /\ results' = SetResult("fdroid", FALSE)
            /\ trail' = Append(trail, Returned("fdroid", "False"))
            /\ UNCHANGED <<idx, entries, generated_count, failed_count>>
       ELSE /\ LoopStart("fdroid")
            /\ UNCHANGED <<results, trail>>
    /\ UNCHANGED <<files, homebrew_results, exit_code, requests>>
    /\ Frame

\* one iteration of the loop of FDroidBuilder.build
FDroidStep ==
    /\ pc = "fdroid"
    /\ idx <= Len(apps)
    /\ LET o == Body(FDroidBuilder_build_app(apps[idx])) IN
       IF o.ret = "raise"
       THEN /\ pc' = "main_homebrew_macOS"
            /\ results' = SetResult("fdroid", FALSE)
            /\ trail' = trail \o <<Event("fdroid", idx, o, "none"),
                                   Returned("fdroid", "False")>>
            /\ UNCHANGED <<idx, entries, generated_count, files>>
       ELSE /\ idx' = idx + 1
            /\ entries' =
                 IF o.ret = "apps_data"
                 THEN Append(entries, [app |-> idx, versions |-> apps[idx].versions])
                 ELSE entries
            /\ generated_count' =
                 IF o.path = "written" THEN generated_count + 1 ELSE generated_count
            /\ files' = files \cup Written("fdroid", idx, o)
            /\ trail' = Append(trail,
                 Event("fdroid", idx, o,
                       IF o.path = "written" THEN "generated_count" ELSE "none"))
            /\ UNCHANGED <<pc, results>>
    /\ UNCHANGED <<failed_count, homebrew_results, exit_code, requests>>
    /\ Frame

\* FDroidBuilder.build after its loop
FDroidFinish ==
    /\ pc = "fdroid"
    /\ idx > Len(apps)
    /\ pc' = "main_homebrew_macOS"
    /\ results' = SetResult("fdroid", entries # <<>>)
    /\ files' =
         IF entries = <<>> THEN files
         ELSE files \cup {Summary("fdroid", IndexJson, Members)}
    /\ trail' = Append(trail, Returned("fdroid", Bool(entries # <<>>)))
    /\ requests' = requests \cup
         UNION {Issued("fdroid", entries[j].app, Out("apps_data", "indexed", {}),
                       FDroidBuilder_build_index_json_requests(entries[j].versions)) :
                j \in 1..Len(entries)}
    /\ UNCHANGED <<idx, entries, generated_count, failed_count, homebrew_results, exit_code>>
    /\ Frame

(* build.py main: Homebrew, once per selected platform *)

PlatformName(p) == IF p = macOS THEN "macOS" ELSE "Linux"
HomebrewPc(p) == IF p = macOS THEN "homebrew_macOS" ELSE "homebrew_Linux"
AfterHomebrew(p) == IF p = macOS THEN "main_homebrew_Linux" ELSE "main_summary"

\* build.py main, 'homebrew' in targets and the platform selected, and
\* HomebrewBuilder.build up to its loop
HomebrewStart(p) ==
    /\ pc = "main_" \o HomebrewPc(p)
    /\ IF "homebrew" \notin prog.targets \/ prog.platform \notin {PlatformName(p), "both"}
       THEN /\ pc' = AfterHomebrew(p)
            /\ UNCHANGED <<idx, entries, generated_count, failed_count,
                           homebrew_results, trail>>
       ELSE IF apps = <<>>
       THEN /\ pc' = AfterHomebrew(p)
            /\ homebrew_results' = Append(homebrew_results, FALSE)
            /\ trail' = Append(trail, Returned(HomebrewPc(p), "False"))
            /\ UNCHANGED <<idx, entries, generated_count, failed_count>>
       ELSE /\ LoopStart(HomebrewPc(p))
            /\ UNCHANGED <<homebrew_results, trail>>
    /\ UNCHANGED <<files, results, exit_code, requests>>
    /\ Frame

\* one iteration of the loop of HomebrewBuilder.build
HomebrewStep(p) ==
    /\ pc = HomebrewPc(p)
    /\ idx <= Len(apps)
    /\ LET o == Body(HomebrewBuilder_generate_formula(apps[idx], apps[idx].versions, p))
           counter == IF o.ret = "True" THEN "generated_count" ELSE "failed_count"
       IN
       IF o.ret = "raise"
       THEN /\ pc' = AfterHomebrew(p)
            /\ homebrew_results' = Append(homebrew_results, FALSE)
            /\ trail' = trail \o <<Event(HomebrewPc(p), idx, o, "none"),
                                   Returned(HomebrewPc(p), "False")>>
            /\ UNCHANGED <<idx, generated_count, failed_count, files, requests>>
       ELSE /\ idx' = idx + 1
            /\ requests' = requests \cup
                 Issued(HomebrewPc(p), idx, o,
                        HomebrewBuilder_generate_formula_requests(
                            apps[idx], apps[idx].versions, p, prog.opt_in))
            /\ generated_count' =
                 IF o.ret = "True" THEN generated_count + 1 ELSE generated_count
            /\ failed_count' =
                 IF o.ret = "True" THEN failed_count ELSE failed_count + 1
            /\ files' = files \cup Written(HomebrewPc(p), idx, o)
            /\ trail' = Append(trail, Event(HomebrewPc(p), idx, o, counter))
            /\ UNCHANGED <<pc, homebrew_results>>
    /\ UNCHANGED <<entries, results, exit_code>>
    /\ Frame

\* HomebrewBuilder.build after its loop
HomebrewFinish(p) ==
    /\ pc = HomebrewPc(p)
    /\ idx > Len(apps)
    /\ pc' = AfterHomebrew(p)
    /\ homebrew_results' = Append(homebrew_results, generated_count > 0)
    /\ files' = files \cup {Summary(HomebrewPc(p), TapInfoJson, {})}
    /\ trail' = Append(trail, Returned(HomebrewPc(p), Bool(generated_count > 0)))
    /\ UNCHANGED <<idx, entries, generated_count, failed_count, results, exit_code,
                   requests>>
    /\ Frame

MainHomebrew == \E p \in {macOS, Linux} : HomebrewStart(p)
HomebrewBuildStep == \E p \in {macOS, Linux} : HomebrewStep(p)
HomebrewBuildFinish == \E p \in {macOS, Linux} : HomebrewFinish(p)

\* build.py main: results['homebrew'], the summary and the exit code
MainSummary ==
    /\ pc = "main_summary"
    /\ pc' = "done"
    /\ results' =
         IF "homebrew" \in prog.targets
         THEN SetResult("homebrew",
                        \E j \in 1..Len(homebrew_results) : homebrew_results[j])
         ELSE results
    /\ exit_code' = IF \A t \in DOMAIN results' : results'[t] THEN 0 ELSE 1
    /\ UNCHANGED <<idx, entries, generated_count, failed_count, files,
                   homebrew_results, trail, requests>>
    /\ Frame

(* The standalone scripts build_fdroid_repo.py and build_winget_repo.py *)

ScriptOf(b) ==
    IF b = "fdroid_repo" THEN "build_fdroid_repo.py" ELSE "build_winget_repo.py"

\* main up to its loop
ScriptStart(b) ==
    /\ pc = "main"
    /\ prog.script = ScriptOf(b)
    /\ IF apps = <<>>
       THEN /\ pc' = "done"
            /\ exit_code' = 1
            /\ trail' = Append(trail, Returned(b, "1"))
            /\ UNCHANGED <<idx, entries, generated_count, failed_count>>
       ELSE /\ LoopStart(b)
            /\ UNCHANGED <<exit_code, trail>>
    /\ UNCHANGED <<files, results, homebrew_results, requests>>
    /\ Frame

\* one iteration of the loop of main; an exception that leaves the emitter
\* ends the process
ScriptStep(b, emitted, issued) ==
    /\ pc = b
    /\ idx <= Len(apps)
    /\ LET o == Body(emitted)
           good == o.ret \in {"True", "app_info"}
           counter == IF good THEN "generated_count" ELSE "failed_count"
       IN
       IF o.ret = "raise"
       THEN /\ pc' = "done"
            /\ exit_code' = 1
            /\ trail' = trail \o <<Event(b, idx, o, "none"), Returned(b, "traceback")>>
            /\ UNCHANGED <<idx, entries, generated_count, failed_count, files, requests>>
       ELSE /\ idx' = idx + 1
            /\ requests' = requests \cup Issued(b, idx, o, issued)
            /\ entries' =
                 IF o.ret = "app_info"
                 THEN Append(entries, [app |-> idx, versions |-> <<apps[idx].versions[1]>>])
                 ELSE entries
            /\ generated_count' = IF good THEN generated_count + 1 ELSE generated_count
            /\ failed_count' = IF good THEN failed_count ELSE failed_count + 1
            /\ files' = files \cup Written(b, idx, o)
            /\ trail' = Append(trail, Event(b, idx, o, counter))
            /\ UNCHANGED <<pc, exit_code>>
    /\ UNCHANGED <<results, homebrew_results>>
    /\ Frame

\* main after its loop
ScriptFinish(b) ==
    /\ pc = b
    /\ idx > Len(apps)
    /\ pc' = "done"
    /\ files' = files
         \cup (IF entries # <<>> THEN {Summary(b, IndexJson, Members)} ELSE {})
         \cup {Summary(b, RepoInfoJson, {})}
    /\ exit_code' = IF generated_count = 0 THEN 1 ELSE 0
    /\ trail' = Append(trail, Returned(b, IF generated_count = 0 THEN "1" ELSE "0"))
    /\ UNCHANGED <<idx, entries, generated_count, failed_count, results, homebrew_results,
                   requests>>
    /\ Frame

FDroidRepoEmit ==
    FDroidMetadataGenerator_generate_metadata_for_app(apps[idx], apps[idx].versions)
WingetEmit == WingetManifestGenerator_generate_manifests(apps[idx], apps[idx].versions)
FDroidRepoRequests ==
    FDroidMetadataGenerator_generate_metadata_requests(
        apps[idx], apps[idx].versions, prog.opt_in)
WingetRequests ==
    WingetManifestGenerator_generate_manifests_requests(
        apps[idx], apps[idx].versions, prog.opt_in)

FDroidRepoMain == ScriptStart("fdroid_repo")
FDroidRepoStep == ScriptStep("fdroid_repo", FDroidRepoEmit, FDroidRepoRequests)
FDroidRepoFinish == ScriptFinish("fdroid_repo")
WingetMain == ScriptStart("winget")
WingetStep == ScriptStep("winget", WingetEmit, WingetRequests)
WingetFinish == ScriptFinish("winget")

NextBatch ==
    \/ MainAltStore
    \/ AltStoreStep
    \/ AltStoreFinish
    \/ MainFDroid
    \/ FDroidStep
    \/ FDroidFinish
    \/ MainHomebrew
    \/ HomebrewBuildStep
    \/ HomebrewBuildFinish
    \/ MainSummary
    \/ FDroidRepoMain
    \/ FDroidRepoStep
    \/ FDroidRepoFinish
    \/ WingetMain
    \/ WingetStep
    \/ WingetFinish

SpecBatch == InitBatch /\ [][NextBatch]_vars

-----------------------------------------------------------------------------
(* Helper calls: one call of one pure helper on one argument *)

IsVersionChar(c) == c \in Digits \/ c = "."

\* re.sub(r'[^\d.]', '', version_str)
clean_version(version_str) == SelectSeq(version_str, IsVersionChar)

\* s.split('.')
RECURSIVE Split(_)
Split(s) ==
    IF \A j \in 1..Len(s) : s[j] # "." THEN <<s>>
    ELSE LET k == CHOOSE j \in 1..Len(s) : s[j] = "." /\ \A i \in 1..(j - 1) : s[i] # "."
         IN <<SubSeq(s, 1, k - 1)>> \o Split(SubSeq(s, k + 1, Len(s)))

\* while len(parts) < 3: parts.append('0'), stopping at two parts
RECURSIVE PadParts_Two(_)
PadParts_Two(parts) ==
    IF Len(parts) < 2 THEN PadParts_Two(Append(parts, <<"0">>)) ELSE parts

\* while len(parts) < 3: parts.append('0')
RECURSIVE PadParts(_)
PadParts(parts) ==
    IF Len(parts) < 3 THEN PadParts(Append(parts, <<"0">>)) ELSE parts

DigitValue(c) == CHOOSE n \in 0..9 : DigitOf(n) = c

\* int(s) for a non-empty string of digits
RECURSIVE PyInt(_)
PyInt(s) ==
    IF s = <<>> THEN 0
    ELSE PyInt(SubSeq(s, 1, Len(s) - 1)) * 10 + DigitValue(s[Len(s)])

\* int(s) raises ValueError
IntRaises(s) == s = <<>> \/ \E j \in 1..Len(s) : s[j] \notin Digits

\* int(part) if part else 0
Component(part) == IF part # <<>> THEN PyInt(part) ELSE 0

\* build_fdroid_repo.py: FDroidMetadataGenerator.version_to_code; the bare
\* except turns every exception (re.sub on a value that is no str, an index
\* past the parts, int() on a part that is no number) into 1
FDroidMetadataGenerator_version_to_code(version_str) ==
    IF ~IsStr(version_str) THEN 1
    ELSE LET parts == PadParts(Split(clean_version(version_str.s)))
         IN IF Len(parts) < 3 THEN 1
            ELSE IF \E j \in 1..3 : parts[j] # <<>> /\ IntRaises(parts[j]) THEN 1
            ELSE Component(parts[1]) * 10000 + Component(parts[2]) * 100
                     + Component(parts[3])

(* the version strings handed to version_to_code *)

MaxVersionLen == 4
VersionAlphabet == {"1", "2", ".", "v", "-"}

\* every string over alphabet of length at most max
StringsOver(alphabet, max) ==
    UNION {[1..n -> alphabet] : n \in 0..max}

\* str(n) for a natural number
RECURSIVE Format(_)
Format(n) == IF n < 10 THEN <<DigitOf(n)>> ELSE Format(n \div 10) \o <<DigitOf(n % 10)>>

Components == {0, 1, 2, 99, 100}
Triples == Components \X Components \X Components
\* f"{major}.{minor}.{patch}"
Dotted(c) == Format(c[1]) \o <<".">> \o Format(c[2]) \o <<".">> \o Format(c[3])

V123 == <<"1", ".", "2", ".", "3">>
Garbage == <<"g", "a", "r", "b", "a", "g", "e">>

VersionStrings ==
    {Str(s) : s \in StringsOver(VersionAlphabet, MaxVersionLen)}
    \cup {Str(Dotted(c)) : c \in Triples}
    \cup {Str(V123), Str(Garbage), NoneV, Num(2)}

(* the class-name sanitizer of build_homebrew_tap.py *)

AppPrefix == <<"A","p","p">>

\* build_homebrew_tap.py: HomebrewFormulaGenerator.sanitize_class_name;
\* sanitized[0] raises IndexError when nothing is left of the name
HomebrewFormulaGenerator_sanitize_class_name(name) ==
    LET sanitized == SelectSeq(Title(name), IsAlnum) IN
    IF sanitized = <<>> THEN Raise
    ELSE IF ~IsAlpha(sanitized[1]) THEN Str(AppPrefix \o sanitized)
    ELSE Str(sanitized)

MaxNameLen == 4
NameAlphabet == {"a", "B", "1", " ", "-"}
Names == {Str(s) : s \in StringsOver(NameAlphabet, MaxNameLen)}

(* the category mappers *)

\* s.replace(a, b) for one-character a and b
Replace(s, a, b) == [j \in 1..Len(s) |-> IF s[j] = a THEN b ELSE s[j]]

\* s.upper()
Upper(s) == [j \in 1..Len(s) |-> UpperChar(s[j])]

\* str(value)
PyStr(value) ==
    IF IsStr(value) THEN value.s
    ELSE IF value = NoneV THEN <<"N","o","n","e">>
    ELSE Format(value.n)

cat_developer == <<"d","e","v","e","l","o","p","e","r">>
cat_entertainment == <<"e","n","t","e","r","t","a","i","n","m","e","n","t">>
cat_games == <<"g","a","m","e","s">>
cat_lifestyle == <<"l","i","f","e","s","t","y","l","e">>
cat_other == <<"o","t","h","e","r">>
cat_photo_video == <<"p","h","o","t","o","-","v","i","d","e","o">>
cat_social == <<"s","o","c","i","a","l">>
cat_utilities == <<"u","t","i","l","i","t","i","e","s">>
fcat_Development == <<"D","e","v","e","l","o","p","m","e","n","t">>
fcat_Games == <<"G","a","m","e","s">>
fcat_Internet == <<"I","n","t","e","r","n","e","t">>
fcat_Multimedia == <<"M","u","l","t","i","m","e","d","i","a">>
fcat_System == <<"S","y","s","t","e","m">>

\* build.py: valid_categories of AltStoreBuilder._map_category
valid_categories ==
    {cat_developer, cat_entertainment, cat_games, cat_lifestyle,
     cat_other, cat_photo_video, cat_social, cat_utilities}

\* _map_category without the replacement of spaces
AltStoreBuilder_map_category_Unhyphenated(category) ==
    LET normalized == Lower(PyStr(category)) IN
    IF normalized \in valid_categories THEN normalized ELSE cat_other

\* build.py: AltStoreBuilder._map_category
AltStoreBuilder_map_category(category) ==
    LET normalized == Replace(Lower(PyStr(category)), " ", "-") IN
    IF normalized \in valid_categories THEN normalized ELSE cat_other

\* build_altstore_repo.py: AltStoreRepoBuilder._map_category
AltStoreRepoBuilder_map_category(category) ==
    LET normalized == Replace(Lower(PyStr(category)), " ", "-") IN
    IF normalized \in valid_categories THEN normalized ELSE cat_other

\* build.py: category_map of FDroidBuilder._map_fdroid_category
category_map ==
    <<<<cat_entertainment, fcat_Multimedia>>,
      <<cat_games, fcat_Games>>,
      <<cat_lifestyle, fcat_System>>,
      <<cat_photo_video, fcat_Multimedia>>,
      <<cat_social, fcat_Internet>>,
      <<cat_utilities, fcat_System>>,
      <<cat_developer, fcat_Development>>,
      <<cat_other, fcat_System>>>>

\* category_map.get(key, default)
MapGet(table, key, default) ==
    IF \E j \in 1..Len(table) : table[j][1] = key
    THEN table[CHOOSE j \in 1..Len(table) : table[j][1] = key][2]
    ELSE default

\* build.py: FDroidBuilder._map_fdroid_category
FDroidBuilder_map_fdroid_category(category) ==
    LET normalized == Replace(Lower(PyStr(category)), " ", "-") IN
    MapGet(category_map, normalized, fcat_System)

UnknownXyz == <<"u","n","k","n","o","w","n","-","x","y","z">>
PhotoVideo == <<"P","h","o","t","o","-","V","i","d","e","o">>

\* the labels the catalog carries: the known ones in several spellings, and
\* labels, None and numbers that are in no table
Spellings(w) ==
    {w, Upper(w), Title(w), Replace(w, "-", " "), Replace(Title(w), "-", " "),
     w \o <<" ">>, <<" ">> \o w, w \o <<"s">>, Replace(w, "-", "_")}

Labels ==
    {Str(s) : s \in UNION {Spellings(w) : w \in valid_categories}}
    \cup {Str(UnknownXyz), Str(PhotoVideo), Str(<<>>), Str(fcat_System),
          Str(fcat_Multimedia), NoneV, Num(7)}

(* build_app_entry with the permissions of the newest artifact *)

\* what the GET of the artifact and the archive it delivers turn out to be:
\* get: the request succeeds or raises; archive: the body is a zip archive;
\* app_dir: it holds Payload/<x>.app/; info and entitlements: the state of
\* Info.plist and of the entitlements file
Ipa(get, archive, app_dir, info, entitlements) ==
    [get |-> get, archive |-> archive, app_dir |-> app_dir, info |-> info,
     entitlements |-> entitlements]

InfoStates == {"absent", "unparseable", "plain", "privacy"}
EntitlementStates == {"absent", "unparseable", "nodict", "common", "keys"}

Ipas ==
    {Ipa(g, a, d, i, e) :
        g \in {"ok", "error"}, a \in BOOLEAN, d \in BOOLEAN,
        i \in InfoStates, e \in EntitlementStates}

HealthyIpa == Ipa("ok", TRUE, TRUE, "privacy", "keys")

Permissions(filtered_ents, privacy) ==
    [t |-> "dict", s |-> <<>>, d |-> <<>>, n |-> 0,
     entitlements |-> filtered_ents, privacy |-> privacy]

\* extract_permissions_from_ipa without its except clause
extract_permissions_from_ipa_Uncaught(ipa) ==
    IF ipa.get # "ok" THEN Raise
    ELSE IF ~ipa.archive THEN Raise
    ELSE IF ~ipa.app_dir THEN NoneV
    ELSE LET privacy == ipa.info = "privacy"
             filtered_ents == ipa.entitlements = "keys"
         IN IF ~filtered_ents /\ ~privacy THEN NoneV
            ELSE Permissions(filtered_ents, privacy)

\* build.py: AltStoreBuilder.extract_permissions_from_ipa; every exception
\* inside it is caught and turned into None
AltStoreBuilder_extract_permissions_from_ipa(ipa) ==
    IF ipa.get # "ok" THEN NoneV
    ELSE IF ~ipa.archive THEN NoneV
    ELSE IF ~ipa.app_dir THEN NoneV
    ELSE LET privacy == ipa.info = "privacy"
             filtered_ents == ipa.entitlements = "keys"
         IN IF ~filtered_ents /\ ~privacy THEN NoneV
            ELSE Permissions(filtered_ents, privacy)

\* build.py: what AltStoreBuilder.build_app_entry returns: the entry with
\* the downloadURL of each version and, when found, the permissions; an
\* exception that reaches its except clause makes it return None
AltStoreBuilder_app_entry(app, ipa) ==
    LET perms == AltStoreBuilder_extract_permissions_from_ipa(ipa) IN
    IF AltStoreBuilder_build_app_entry(app).ret # "app_entry" THEN NoneV
    ELSE IF perms = Raise THEN NoneV
    ELSE [t |-> "app_entry",
          versions |-> AltStoreBuilder_altstore_versions(app),
          appPermissions |-> IF perms # NoneV THEN perms ELSE AbsentV]

(* the version entries FDroidBuilder emits *)

\* v.get('version', '1.0')
VersionName(v) == VGetD(v, "version", Str(V10))

\* build.py: the Builds entries of FDroidBuilder.build_metadata_yml
FDroidBuilder_builds(versions) ==
    LET usable == SelectSeq(Take(versions, FDroidCap), ApkUsable)
    IN [j \in 1..Len(usable) |-> VersionName(usable[j])]

\* build.py: what FDroidBuilder.build_metadata_yml returns
FDroidBuilder_metadata(app) ==
    LET ret == FDroidBuilder_build_metadata_yml(app, app.versions) IN
    IF ret = "raise" THEN Raise
    ELSE IF ret = "None" THEN NoneV
    ELSE [t |-> "metadata", builds |-> FDroidBuilder_builds(app.versions)]

\* build.py: the package_versions of one application in
\* FDroidBuilder.build_index_json
FDroidBuilder_package_versions(versions) ==
    LET usable == SelectSeq(Take(versions, FDroidCap), ApkUsable)
    IN [j \in 1..Len(usable) |-> VersionName(usable[j])]

\* build.py: FDroidBuilder.build_index_json for apps_data of one application
FDroidBuilder_build_index_json(app) ==
    LET head == Take(app.versions, FDroidCap)
        package_versions == FDroidBuilder_package_versions(app.versions)
    IN IF \E j \in 1..Len(head) : FDroidBuilder_extract_apk_url(head[j]) = Raise
       THEN Raise
       ELSE [t |-> "index", apps |-> <<app.slug>>,
             packages |-> IF package_versions # <<>> THEN <<package_versions>> ELSE <<>>,
             \* the packageName of each entry of "apps"
             packageNames |-> <<AGet(app, "bundleIdentifier", Str(<<>>))>>,
             \* the keys of "packages"
             keys |-> IF package_versions # <<>>
                      THEN {AGet(app, "bundleIdentifier",
                                 Str(sanitize_name_package(
                                     AGet(app, "name", Str(<<"u","n","k","n","o","w","n">>)).s)))}
                      ELSE {}]

(* the applications handed to the emitters *)

MaxVersions == 11

\* the j-th version of a list: its name and its artifact address carry j
Marked(j, usable) ==
    LET mark == <<Lowers[j]>> IN
    Ver(IF usable
        THEN Dict(<< <<iOS, Str(Url(mark))>>,
                     <<Android, Dict(<< <<apk, Str(Url(mark))>> >>)>> >>)
        ELSE Dict(<<>>),
        AbsentV, AbsentV, List(AllPlatforms), Str(mark))

\* which versions of an n-version list carry artifacts: all of them, none,
\* every other one, or all but one
Usability(n) ==
    {[j \in 1..n |-> TRUE], [j \in 1..n |-> FALSE],
     [j \in 1..n |-> j % 2 = 0], [j \in 1..n |-> j % 2 = 1],
     [j \in 1..n |-> j > FDroidCap]}
    \cup {[j \in 1..n |-> j # k] : k \in 1..n}

VersionLists ==
    UNION {{[j \in 1..n |-> Marked(j, u[j])] : u \in Usability(n)} :
           n \in 0..MaxVersions}

WithVersions(versions) == [App("good", 1) EXCEPT !.versions = versions]

\* the same application with a bundleIdentifier
BundleId == <<"b", ".", "x">>
Bundled(versions) == [WithVersions(versions) EXCEPT !.bundleIdentifier = Str(BundleId)]

MaxProbed == 2

\* an application of every version list with a healthy artifact, and an
\* application of every short list with every kind of artifact
EntryArgs ==
    {[app |-> WithVersions(vs), ipa |-> HealthyIpa] : vs \in VersionLists}
    \cup {[app |-> Bundled(vs), ipa |-> HealthyIpa] : vs \in VersionLists}
    \cup {[app |-> WithVersions(vs), ipa |-> ipa] :
            vs \in {w \in VersionLists : Len(w) <= MaxProbed}, ipa \in Ipas}
    \cup {[app |-> App(k, 1), ipa |-> ipa] :
            k \in {"garbage", "trailing", "late", "nofetch"},
            ipa \in {HealthyIpa, Ipa("error", FALSE, FALSE, "absent", "absent")}}

(* the version a single-version emitter works from *)

\* an emitter working from the oldest version of the list
Latest_Last(versions) == versions[Len(versions)]

\* latest_version = versions[0]
Latest(versions) == versions[1]

(* the Winget descriptor files *)

V100 == <<"1", ".", "0", ".", "0">>

Manifest(type, package_id, package_version) ==
    [ManifestType |-> type, PackageIdentifier |-> package_id,
     PackageVersion |-> package_version]

\* build_winget_repo.py: generate_version_manifest, past its URL test
WingetManifestGenerator_generate_version_manifest(app, v, package_id) ==
    [ManifestType |-> "version", PackageIdentifier |-> package_id,
     PackageVersion |-> v.version,
     InstallerUrl |-> WingetManifestGenerator_get_windows_download_url(v)]

\* {**app, 'version': version_str}
WithVersion(app, version_str) == [app |-> app, version |-> version_str]

\* app.get('version', '1.0.0')
AppVersion(app_with_version) ==
    IF app_with_version.version = AbsentV THEN Str(V100) ELSE app_with_version.version

WingetManifestGenerator_generate_default_locale_manifest(app_with_version, package_id) ==
    Manifest("defaultLocale", package_id, AppVersion(app_with_version))

WingetManifestGenerator_generate_installer_manifest(app_with_version, package_id) ==
    Manifest("installer", package_id, AppVersion(app_with_version))

\* a descriptor file: the directory it is in, its name, what is dumped into it
Descriptor(dir, name, manifest) == [dir |-> dir, name |-> name, manifest |-> manifest]

\* generate_manifests writing into a directory other than the one it made
WingetManifestGenerator_written_Flat(app, versions) ==
    LET out == WingetManifestGenerator_generate_manifests(app, versions)
        package_id == WingetManifestGenerator_sanitize_package_id(app.name.s)
        version_str == versions[1].version
        app_with_version == WithVersion(app, version_str)
    IN [t |-> "manifests", ret |-> out.ret,
        written |->
            IF out.path # "written" THEN {}
            ELSE {Descriptor(Publisher, package_id \o InstallerSuffix,
                      WingetManifestGenerator_generate_installer_manifest(
                          app_with_version, package_id)),
                  Descriptor(Publisher \o Slash \o version_str.s,
                      package_id \o LocaleSuffix,
                      WingetManifestGenerator_generate_default_locale_manifest(
                          app_with_version, package_id)),
                  Descriptor(Publisher \o Slash \o version_str.s,
                      package_id \o YamlSuffix,
                      WingetManifestGenerator_generate_version_manifest(
                          app, versions[1], package_id))}]

\* build_winget_repo.py: what generate_manifests returns and the descriptor
\* files it has written when it returns
WingetManifestGenerator_written(app, versions) ==
    LET out == WingetManifestGenerator_generate_manifests(app, versions)
        package_id == WingetManifestGenerator_sanitize_package_id(app.name.s)
        latest_version == Latest(versions)
        version_str == latest_version.version
        manifest_dir ==
            WingetManifestGenerator_create_manifest_directory(package_id, version_str.s)
        app_with_version == WithVersion(app, version_str)
    IN [t |-> "manifests", ret |-> out.ret,
        written |->
            IF out.path # "written" THEN {}
            ELSE {Descriptor(manifest_dir, package_id \o InstallerSuffix,
                      WingetManifestGenerator_generate_installer_manifest(
                          app_with_version, package_id)),
                  Descriptor(manifest_dir, package_id \o LocaleSuffix,
                      WingetManifestGenerator_generate_default_locale_manifest(
                          app_with_version, package_id)),
                  Descriptor(manifest_dir, package_id \o YamlSuffix,
                      WingetManifestGenerator_generate_version_manifest(
                          app, latest_version, package_id))}]

\* version records for Windows: listed or not, resolving or not, with the
\* version strings the API may serve
WindowsDownloads ==
    {GoodDownloads, Dict(<<>>), Dict(<< <<Windows, Dict(<< <<exe, Num(7)>> >>)>> >>),
     Dict(<< <<Windows, Dict(<< <<zip, Str(Url(<<"z">>))>> >>)>> >>)}
VersionFields == {Str(V10), Str(<<"2">>), Str(<<>>), Num(2), AbsentV}
WindowsVersions ==
    {Ver(dl, AbsentV, AbsentV, plats, vs) :
        dl \in WindowsDownloads, plats \in {List(AllPlatforms), List(<<iOS>>)},
        vs \in VersionFields}

Named(name, versions) == [App("good", 1) EXCEPT !.name = name, !.versions = versions]

\* the short names
ShortNames == {name \in Names : Len(name.s) <= MaxProbed}

\* a second, older version: every platform listed and resolving, with a
\* version string and URLs of its own
LaterDownloads ==
    Dict(<< <<iOS, Str(Url(<<"j">>))>>,
            <<Android, Dict(<< <<apk, Str(Url(<<"b">>))>> >>)>>,
            <<macOS, Dict(<< <<universal, Str(Url(<<"n">>))>> >>)>>,
            <<Linux, Dict(<< <<appimage, Str(Url(<<"k">>))>> >>)>>,
            <<Windows, Dict(<< <<exe, Str(Url(<<"x">>))>> >>)>> >>)
LaterVersion == Ver(LaterDownloads, AbsentV, AbsentV, List(AllPlatforms), Str(<<"9">>))

App1 == Str(<<"a","p","p"," ","1">>)

ManifestArgs ==
    {[app |-> Named(name, <<v>>)] : name \in ShortNames, v \in WindowsVersions}
    \cup {[app |-> Named(App1, <<v, LaterVersion>>)] : v \in WindowsVersions}
    \cup {[app |-> Named(name, <<>>)] : name \in ShortNames}
    \cup {[app |-> App(k, 1)] : k \in {"garbage", "late", "trailing"}}

(* the sha256 line of a formula *)

\* how the server answers: "200", another status ("404"), or the request
\* raises ("error")
Answers == {"200", "404", "error"}
Networks == [head : Answers, get : Answers]

HexDigits == {"0","1","2","3","4","5","6","7","8","9","a","b","c","d","e","f"}
\* hashlib.sha256(response.content).hexdigest() of the served artifact
Digest == [j \in 1..64 |-> IF j % 2 = 0 THEN "e" ELSE "3"]

\* build.py: get_sha256(url)
get_sha256(net) == IF net.get = "200" THEN Str(Digest) ELSE NoneV

\* build_homebrew_tap.py: get_download_url_sha256(url); HEAD first, then GET
\* on either branch, every exception caught
HomebrewFormulaGenerator_get_download_url_sha256(net) ==
    IF net.head = "error" THEN NoneV
    ELSE IF net.get = "200" THEN Str(Digest)
    ELSE NoneV

Placeholder ==
    <<" "," ","#"," ","s","h","a","2","5","6"," ","\"","R","E","P","L","A","C","E","_",
          "W","I","T","H","_","A","C","T","U","A","L","_","S","H","A","2","5","6","\"">>
ActiveHead ==
    <<" "," ","s","h","a","2","5","6"," ","\"">>
\* f'  sha256 "{sha256_hash}"'
ActiveLine(sha256_hash) == ActiveHead \o PyStr(sha256_hash) \o <<"\"">>

\* build.py: sha256_line of HomebrewBuilder.generate_formula_content
HomebrewBuilder_sha256_line(net, calculate_sha256) ==
    LET sha256_hash == get_sha256(net) IN
    IF calculate_sha256 /\ Truthy(sha256_hash) THEN ActiveLine(sha256_hash)
    ELSE Placeholder

\* build_homebrew_tap.py: sha256_line of
\* HomebrewFormulaGenerator.generate_formula_content; the except clause is
\* for an exception get_download_url_sha256 lets through, and it lets none
HomebrewFormulaGenerator_sha256_line(net, calculate_sha256) ==
    IF calculate_sha256
    THEN ActiveLine(HomebrewFormulaGenerator_get_download_url_sha256(net))
    ELSE Placeholder

ContentArgs == [net : Networks, calculate_sha256 : BOOLEAN]

(* the helper run *)

(* what the formula and metadata emitters write *)

\* a written file, with the URL and the version string it carries (NoUrl
\* for a file that names no URL)
NoUrl == [t |-> "none"]
Emitted(name, url, version_str) == [name |-> name, url |-> url, version |-> version_str]

\* build.py: what generate_formula returns and the formula it has written:
\* url "{download_url}", version "{version['version']}"
HomebrewBuilder_written(app, versions, p) ==
    LET out == HomebrewBuilder_generate_formula(app, versions, p)
        latest_version == Latest(versions)
    IN [t |-> "formula", ret |-> out.ret,
        written |->
            IF out.path # "written" THEN {}
            ELSE {Emitted(f.name,
                          HomebrewBuilder_get_download_url_for_platform(latest_version, p),
                          latest_version.version) : f \in out.files}]

\* build_fdroid_repo.py: what generate_metadata_for_app returns and the
\* metadata file it has written: versionName and CurrentVersion are
\* latest_version['version']; the file names no URL
FDroidMetadataGenerator_written(app, versions) ==
    LET out == FDroidMetadataGenerator_generate_metadata_for_app(app, versions)
        latest_version == Latest(versions)
    IN [t |-> "metadata", ret |-> out.ret,
        written |->
            IF out.path # "written" THEN {}
            ELSE {Emitted(f.name, NoUrl, latest_version.version) : f \in out.files}]

\* first versions: resolving or not, listed or not, with or without a
\* version string
FirstVersions ==
    {Ver(dl, AbsentV, AbsentV, plats, vs) :
        dl \in {GoodDownloads, Dict(<<>>)}, plats \in {List(AllPlatforms), List(<<iOS>>)},
        vs \in {Str(V10), AbsentV}}
    \cup {GarbageVersion}
EmitterLists ==
    {<<>>} \cup {<<v>> : v \in FirstVersions}
    \cup {<<v, LaterVersion>> : v \in FirstVersions}
    \cup {<<v, BareVersion, LaterVersion>> : v \in FirstVersions}
EmitterArgs ==
    {[app |-> Named(App1, vs), platform |-> p] :
        vs \in EmitterLists, p \in {macOS, Linux, Android}}

Helpers ==
    {"FDroidMetadataGenerator.version_to_code", "sanitize_name",
     "HomebrewFormulaGenerator.sanitize_class_name",
     "AltStoreBuilder._map_category", "AltStoreRepoBuilder._map_category",
     "FDroidBuilder._map_fdroid_category", "AltStoreBuilder.build_app_entry",
     "FDroidBuilder.build_metadata_yml", "FDroidBuilder.build_index_json",
     "WingetManifestGenerator.generate_manifests",
     "HomebrewBuilder.generate_formula_content",
     "HomebrewFormulaGenerator.generate_formula_content",
     "HomebrewBuilder.generate_formula",
     "FDroidMetadataGenerator.generate_metadata_for_app"}

\* the arguments helper h is called with
ArgsOf(h) ==
    CASE h = "FDroidMetadataGenerator.version_to_code" -> VersionStrings
      [] h \in {"sanitize_name", "HomebrewFormulaGenerator.sanitize_class_name"} -> Names
      [] h \in {"AltStoreBuilder._map_category", "AltStoreRepoBuilder._map_category",
                "FDroidBuilder._map_fdroid_category"} -> Labels
      [] h = "WingetManifestGenerator.generate_manifests" -> ManifestArgs
      [] h \in {"HomebrewBuilder.generate_formula_content",
                "HomebrewFormulaGenerator.generate_formula_content"} -> ContentArgs
      [] h = "HomebrewBuilder.generate_formula" ->
            {a \in EmitterArgs : a.platform \in {macOS, Linux}}
      [] h = "FDroidMetadataGenerator.generate_metadata_for_app" ->
            {a \in EmitterArgs : a.platform = Android}
      [] OTHER -> EntryArgs

\* what helper h returns for argument a
Apply(h, a) ==
    CASE h = "FDroidMetadataGenerator.version_to_code" ->
            Num(FDroidMetadataGenerator_version_to_code(a))
      [] h = "sanitize_name" -> Str(sanitize_name_class(a.s))
      [] h = "HomebrewFormulaGenerator.sanitize_class_name" ->
            HomebrewFormulaGenerator_sanitize_class_name(a.s)
      [] h = "AltStoreBuilder._map_category" -> Str(AltStoreBuilder_map_category(a))
      [] h = "AltStoreRepoBuilder._map_category" -> Str(AltStoreRepoBuilder_map_category(a))
      [] h = "FDroidBuilder._map_fdroid_category" ->
            Str(FDroidBuilder_map_fdroid_category(a))
      [] h = "AltStoreBuilder.build_app_entry" -> AltStoreBuilder_app_entry(a.app, a.ipa)
      [] h = "FDroidBuilder.build_metadata_yml" -> FDroidBuilder_metadata(a.app)
      [] h = "FDroidBuilder.build_index_json" -> FDroidBuilder_build_index_json(a.app)
      [] h = "WingetManifestGenerator.generate_manifests" ->
            WingetManifestGenerator_written(a.app, a.app.versions)
      [] h = "HomebrewBuilder.generate_formula_content" ->
            Str(HomebrewBuilder_sha256_line(a.net, a.calculate_sha256))
      [] h = "HomebrewFormulaGenerator.generate_formula_content" ->
            Str(HomebrewFormulaGenerator_sha256_line(a.net, a.calculate_sha256))
      [] h = "HomebrewBuilder.generate_formula" ->
            HomebrewBuilder_written(a.app, a.app.versions, a.platform)
      [] h = "FDroidMetadataGenerator.generate_metadata_for_app" ->
            FDroidMetadataGenerator_written(a.app, a.app.versions)

InitHelper ==
    /\ version = BareVersion
    /\ platform = iOS
    /\ called = ""
    /\ result = Pending
    /\ again = Pending
    /\ \E h \in Helpers : arg \in ArgsOf(h)
    /\ IdleBatch

CallHelper(h) ==
    /\ called = ""
    /\ arg \in ArgsOf(h)
    /\ called' = h
    /\ result' = Apply(h, arg)
    /\ UNCHANGED <<version, platform, again, arg>>
    /\ UNCHANGED batchVars

CallVersionToCode == CallHelper("FDroidMetadataGenerator.version_to_code")
CallSanitizeName == CallHelper("sanitize_name")
CallSanitizeClassName == CallHelper("HomebrewFormulaGenerator.sanitize_class_name")
CallMapCategory == CallHelper("AltStoreBuilder._map_category")
CallRepoMapCategory == CallHelper("AltStoreRepoBuilder._map_category")
CallMapFDroidCategory == CallHelper("FDroidBuilder._map_fdroid_category")
CallBuildAppEntry == CallHelper("AltStoreBuilder.build_app_entry")
CallBuildMetadataYml == CallHelper("FDroidBuilder.build_metadata_yml")
CallBuildIndexJson == CallHelper("FDroidBuilder.build_index_json")
CallGenerateManifests == CallHelper("WingetManifestGenerator.generate_manifests")
CallFormulaContent == CallHelper("HomebrewBuilder.generate_formula_content")
CallTapFormulaContent == CallHelper("HomebrewFormulaGenerator.generate_formula_content")
CallGenerateFormula == CallHelper("HomebrewBuilder.generate_formula")
CallGenerateMetadataForApp ==
    CallHelper("FDroidMetadataGenerator.generate_metadata_for_app")

NextHelper ==
    \/ CallVersionToCode
    \/ CallSanitizeName
    \/ CallSanitizeClassName
    \/ CallMapCategory
    \/ CallRepoMapCategory
    \/ CallMapFDroidCategory
    \/ CallBuildAppEntry
    \/ CallBuildMetadataYml
    \/ CallBuildIndexJson
    \/ CallGenerateManifests
    \/ CallFormulaContent
    \/ CallTapFormulaContent
    \/ CallGenerateFormula
    \/ CallGenerateMetadataForApp

SpecHelper == InitHelper /\ [][NextHelper]_vars

-----------------------------------------------------------------------------
(* Claims about the resolvers, checked under SpecResolver *)

\* the entry of the resolved platform in the downloads of the version record
HasPlatformEntry ==
    /\ version.t = "dict"
    /\ IsDict(version.downloads)
    /\ Has(version.downloads, platform)
PlatformEntry == Item(version.downloads, platform)

AndroidResolvers ==
    {"FDroidBuilder.extract_apk_url", "FDroidMetadataGenerator.get_android_download_url"}
IpaResolvers ==
    {"AltStoreBuilder.extract_ipa_url", "AltStoreRepoBuilder.extract_ipa_url"}
HomebrewResolvers ==
    {"HomebrewBuilder.get_download_url_for_platform",
     "HomebrewFormulaGenerator.get_download_url_for_platform"}

\* C1: when downloads['Android'] is a non-empty string URL (a string with no
\* surrounding blanks), extract_apk_url and get_android_download_url both
\* return exactly that string.
C1_AndroidStringReturned ==
    ( /\ called \in AndroidResolvers
      /\ HasPlatformEntry
      /\ IsStr(PlatformEntry)
      /\ PlatformEntry.s # <<>>
      /\ Strip(PlatformEntry.s) = PlatformEntry.s )
    => result = PlatformEntry

\* the first key of order that d holds with a truthy value, if any
FirstTruthy(d, order) ==
    {order[j] : j \in {m \in 1..Len(order) :
                          /\ Has(d, order[m]) /\ Truthy(Item(d, order[m]))
                          /\ \A l \in 1..(m - 1) :
                                ~(Has(d, order[l]) /\ Truthy(Item(d, order[l])))}}

\* what a package type contributes: under a mapping the value of the first of
\* x86_64, arm64 that is truthy; a non-empty string itself; else nothing
PackageCandidate(d, k) ==
    IF ~Has(d, k) THEN {}
    ELSE LET x == Item(d, k) IN
         IF IsDict(x) THEN {Item(x, a) : a \in FirstTruthy(x, <<x86_64, arm64>>)}
         ELSE IF IsStr(x) /\ x.s # <<>> THEN {x}
         ELSE {}

\* C2: get_download_url_for_platform probes in a fixed order and returns the
\* first hit: macOS universal, arm64, x86_64; Linux appimage, zip, deb, rpm,
\* inside a mapping x86_64 then arm64, a direct non-empty string as is.
C2_ProbeOrder ==
    ( /\ called \in HomebrewResolvers
      /\ HasPlatformEntry
      /\ IsDict(PlatformEntry) )
    => /\ platform = macOS =>
            \A a \in FirstTruthy(PlatformEntry, <<universal, arm64, x86_64>>) :
                result = Item(PlatformEntry, a)
       /\ platform = Linux =>
            LET order == <<appimage, zip, deb, rpm>> IN
            \A j \in 1..4 :
                ( /\ PackageCandidate(PlatformEntry, order[j]) # {}
                  /\ \A l \in 1..(j - 1) : PackageCandidate(PlatformEntry, order[l]) = {} )
                => result \in PackageCandidate(PlatformEntry, order[j])

\* C2 witness: the mapping lists arm64 before universal, and universal is returned
C2_Witness ==
    /\ called = "HomebrewBuilder.get_download_url_for_platform"
    /\ platform = macOS
    /\ HasPlatformEntry
    /\ IsDict(PlatformEntry)
    /\ Len(PlatformEntry.d) = 2
    /\ PlatformEntry.d[1] = <<arm64, Str(Url(arm64))>>
    /\ PlatformEntry.d[2] = <<universal, Str(Url(universal))>>
    /\ result = Str(Url(universal))

\* the three probes of extract_ipa_url as the claim words them
ClaimProbe1 ==
    IF /\ IsDict(version.downloads) /\ Has(version.downloads, iOS)
       /\ IsStr(Item(version.downloads, iOS)) /\ Item(version.downloads, iOS).s # <<>>
    THEN {Item(version.downloads, iOS).s} ELSE {}
ClaimProbe2 ==
    IF /\ IsDict(version.platformInstall) /\ Has(version.platformInstall, iOS)
       /\ IsStr(Item(version.platformInstall, iOS))
       /\ Item(version.platformInstall, iOS).s # <<>>
       /\ StartsWith(Item(version.platformInstall, iOS).s, <<"h","t","t","p">>)
    THEN {Item(version.platformInstall, iOS).s} ELSE {}
ClaimProbe3 ==
    IF /\ IsStr(version.downloadURL)
       /\ StartsWith(version.downloadURL.s, <<"h","t","t","p">>)
    THEN {version.downloadURL.s} ELSE {}

\* the value a probe hands back: the string, or the string stripped
AsReturned(hit) == {Str(x) : x \in hit} \cup {Str(Strip(x)) : x \in hit}

\* C3 as stated: the result is that of the first successful probe among
\* (1) downloads['iOS'] a non-empty string, (2) platformInstall['iOS'] a
\* non-empty string beginning with http, (3) downloadURL a string beginning
\* with http; None exactly when all three fail.
C3_AsStated ==
    (called \in IpaResolvers /\ version.t = "dict")
    => IF ClaimProbe1 # {} THEN result \in AsReturned(ClaimProbe1)
       ELSE IF ClaimProbe2 # {} THEN result \in AsReturned(ClaimProbe2)
       ELSE IF ClaimProbe3 # {} THEN result \in AsReturned(ClaimProbe3)
       ELSE result = NoneV

\* the probes with the blanks accounted for
StrippedProbe1 ==
    IF /\ IsDict(version.downloads) /\ Has(version.downloads, iOS)
       /\ IsStr(Item(version.downloads, iOS))
       /\ Strip(Item(version.downloads, iOS).s) # <<>>
    THEN {Str(Strip(Item(version.downloads, iOS).s))} ELSE {}
StrippedProbe3 ==
    IF /\ IsStr(version.downloadURL)
       /\ StartsWith(Strip(version.downloadURL.s), <<"h","t","t","p">>)
    THEN {Str(Strip(version.downloadURL.s))} ELSE {}

\* C3 amended: the result is the whitespace-stripped value of the first
\* successful probe among (1) downloads['iOS'] a string that is non-empty
\* after stripping, (2) platformInstall['iOS'] a string beginning with http,
\* (3) downloadURL a string that begins with http after stripping; None
\* exactly when all three fail (and for a version that is no mapping).
C3_StrippedProbes ==
    called \in IpaResolvers
    => IF version.t # "dict" THEN result = NoneV
       ELSE IF StrippedProbe1 # {} THEN result \in StrippedProbe1
       ELSE IF ClaimProbe2 # {} THEN result \in {Str(Strip(x)) : x \in ClaimProbe2}
       ELSE IF StrippedProbe3 # {} THEN result \in StrippedProbe3
       ELSE result = NoneV

\* C3 witness: probe (1) fails on a blank string, probe (2) succeeds and its
\* stripped value is returned although downloadURL holds a URL too
C3_Witness ==
    /\ called = "AltStoreBuilder.extract_ipa_url"
    /\ version.t = "dict"
    /\ version.downloads = Dict(<< <<iOS, Str(Blank)>> >>)
    /\ version.platformInstall = Dict(<< <<iOS, Str(Trail(Url(<<"p">>)))>> >>)
    /\ version.downloadURL = Str(Url(<<"t">>))
    /\ result = Str(Url(<<"p">>))

\* the string leaves beginning with http at depth one or two of a mapping
HttpLeaves(d) ==
    {d.d[j][2] : j \in {m \in 1..Len(d.d) :
                          IsStr(d.d[m][2]) /\ StartsWith(d.d[m][2].s, <<"h","t","t","p">>)}}
    \cup UNION {{d.d[j][2].d[l][2] :
                    l \in {m \in 1..Len(d.d[j][2].d) :
                             /\ IsStr(d.d[j][2].d[m][2])
                             /\ StartsWith(d.d[j][2].d[m][2].s, <<"h","t","t","p">>)}}
                : j \in {m \in 1..Len(d.d) : IsDict(d.d[m][2])}}

\* no key of the preferred lists holds anything but nothing, a falsy value or
\* a mapping without a truthy x86_64 / arm64
NoPreferredCandidate(d, p) ==
    IF p = macOS
    THEN \A a \in {universal, arm64, x86_64} : ~(Has(d, a) /\ Truthy(Item(d, a)))
    ELSE \A k \in (IF p = Linux THEN {appimage, zip, deb, rpm} ELSE {exe, msi, msix, zip}) :
            \/ ~Has(d, k)
            \/ ~Truthy(Item(d, k))
            \/ /\ IsDict(Item(d, k))
               /\ \A a \in {x86_64, arm64} :
                     ~(Has(Item(d, k), a) /\ Truthy(Item(Item(d, k), a)))

\* C4: in the desktop resolvers (Homebrew for macOS and Linux, Winget for
\* Windows), when the platform entry is a mapping and the preferred lists
\* yield nothing, the result is a string leaf beginning with http found at
\* depth one or two if there is one, and None only if there is none.
C4_FallbackScan ==
    ( /\ \/ called \in HomebrewResolvers /\ platform \in {macOS, Linux}
         \/ called = "WingetManifestGenerator.get_windows_download_url"
      /\ HasPlatformEntry
      /\ IsDict(PlatformEntry)
      /\ NoPreferredCandidate(PlatformEntry, platform) )
    => IF HttpLeaves(PlatformEntry) # {} THEN result \in HttpLeaves(PlatformEntry)
       ELSE result = NoneV

\* the same for the Homebrew resolvers alone
C4_HomebrewFallbackScan ==
    called \in HomebrewResolvers /\ platform \in {macOS, Linux} => C4_FallbackScan

\* v with one item whose value is the empty string removed, at any depth
RECURSIVE DropEmpty(_)
DropEmpty(v) ==
    IF ~IsDict(v) THEN {}
    ELSE UNION {
           (IF v.d[j][2] = Str(<<>>)
            THEN {Dict(SubSeq(v.d, 1, j - 1) \o SubSeq(v.d, j + 1, Len(v.d)))}
            ELSE {})
           \cup {Dict([v.d EXCEPT ![j] = <<v.d[j][1], w>>]) : w \in DropEmpty(v.d[j][2])}
           : j \in 1..Len(v.d)}

\* the version records that differ from v by the removal of one key that
\* holds the empty string in downloads, platformInstall or downloadURL
WithoutOneEmpty(v) ==
    IF v.t # "dict" THEN {}
    ELSE {[v EXCEPT !.downloads = w] : w \in DropEmpty(v.downloads)}
         \cup {[v EXCEPT !.platformInstall = w] : w \in DropEmpty(v.platformInstall)}
         \cup (IF v.downloadURL = Str(<<>>) THEN {[v EXCEPT !.downloadURL = AbsentV]} ELSE {})

\* C5: no resolver returns the empty string, and removing a key that holds
\* the empty string leaves the resolver's result unchanged.
C5_EmptyIsAbsent ==
    called # ""
    => /\ result # Str(<<>>)
       /\ \A w \in WithoutOneEmpty(version) : Resolve(called, w, platform) = result

\* the call returned None or a non-empty str
AbsentOrUrl(r) == r = NoneV \/ (IsStr(r) /\ r.s # <<>>)

\* C23: whatever the values stored in the download tree, a resolver that
\* returns returns None or a non-empty string, never a mapping, a number or
\* another value.
C23_NoneOrString ==
    (called # "" /\ result # Raise) => AbsentOrUrl(result)

\* the same for the resolvers that test the type of what they return
C23_NoneOrStringWhereTested ==
    (called \in {"AltStoreBuilder.extract_ipa_url", "AltStoreRepoBuilder.extract_ipa_url"}
     /\ result # Raise) => AbsentOrUrl(result)

(* Claims about two calls of a resolver, checked under SpecRecall *)

-----------------------------------------------------------------------------
(* Claims about the batch runs, checked under SpecBatch *)

Builders ==
    {"altstore", "fdroid", "homebrew_macOS", "homebrew_Linux", "fdroid_repo", "winget"}

EventsOf(b) == {j \in 1..Len(trail) : trail[j].b = b /\ trail[j].i > 0}
Finished(b) == \E j \in 1..Len(trail) : trail[j].b = b /\ trail[j].path = "return"
ReturnOf(b) == trail[CHOOSE j \in 1..Len(trail) : trail[j].b = b /\ trail[j].path = "return"].ret
Reached(b, i) == \E j \in EventsOf(b) : trail[j].i = i
Count(b, path) == Cardinality({j \in EventsOf(b) : trail[j].path = path})
\* the applications for which builder b has put a file on disk
WrittenApps(b) == UNION {f.apps : f \in {g \in files : g.b = b /\ g.kind = "file"}}
Success(b) == ReturnOf(b) \in {"True", "0"}

\* C6: in every target's loop a failure on one application never aborts the
\* loop: once the builder has returned, every application of the catalog has
\* been processed, and a builder that wrote an application reports success.
C6_LoopNeverAborts ==
    \A b \in Builders :
        Finished(b) =>
            /\ \A i \in 1..Len(apps) : Reached(b, i)
            /\ \A i \in 1..Len(apps) : ~(Reached(b, i) /\ trail[CHOOSE j \in EventsOf(b) : trail[j].i = i].path = "aborted")
            /\ WrittenApps(b) # {} => Success(b)

\* C7: AltStoreBuilder.build, FDroidBuilder.build and HomebrewBuilder.build
\* return False if and only if no application was written for the target.
C7_FailedIffNoneWritten ==
    \A b \in {"altstore", "fdroid", "homebrew_macOS", "homebrew_Linux"} :
        Finished(b) => (ReturnOf(b) = "False" <=> WrittenApps(b) = {})

\* the applications written for a target named on the command line
WrittenFor(t) ==
    CASE t = "altstore" -> WrittenApps("altstore")
      [] t = "fdroid" -> WrittenApps("fdroid")
      [] t = "homebrew" -> WrittenApps("homebrew_macOS") \cup WrittenApps("homebrew_Linux")
      [] OTHER -> {}

\* C8: build.py exits with 0 when every selected target wrote at least one
\* application and with 1 when some selected target wrote none.
C8_ExitCode ==
    (prog.script = "build.py" /\ pc = "done") =>
        (exit_code = 0 <=> \A t \in prog.targets : WrittenFor(t) # {})

PlatformOf(b) == IF b = "homebrew_macOS" THEN macOS ELSE IF b = "homebrew_Linux" THEN Linux ELSE Windows
ResolverOf(b) ==
    IF b = "winget" THEN "WingetManifestGenerator.get_windows_download_url"
    ELSE "HomebrewBuilder.get_download_url_for_platform"

\* the newest version of application i is a record without a key for p
NoPlatformKey(i, p) ==
    /\ apps[i].t = "dict"
    /\ apps[i].versions # <<>>
    /\ apps[i].versions[1].t = "dict"
    /\ IsDict(apps[i].versions[1].downloads)
    /\ ~Has(apps[i].versions[1].downloads, p)
    /\ apps[i].versions[1].platformInstall = AbsentV
    /\ apps[i].versions[1].downloadURL = AbsentV

\* C9: for an application whose version has no key for the platform the
\* resolver returns None, no file is written for it, and what the emitter
\* returns for it and the counter raised for it differ from those of an
\* application that failed.
C9_SkippedDistinctFromFailed ==
    \A b \in {"homebrew_macOS", "homebrew_Linux", "winget"} :
        \A j \in EventsOf(b) :
            (trail[j].path # "noslug" /\ NoPlatformKey(trail[j].i, PlatformOf(b))) =>
                /\ Resolve(ResolverOf(b), apps[trail[j].i].versions[1], PlatformOf(b)) = NoneV
                /\ trail[j].path = "skipped"
                /\ trail[j].i \notin WrittenApps(b)
                /\ \A k \in EventsOf(b) :
                       trail[k].path = "failed" =>
                           /\ trail[k].ret # trail[j].ret
                           /\ trail[k].counter # trail[j].counter

\* builder b has just returned and its counters are the ones in the state
Reporting(b) ==
    /\ trail # <<>>
    /\ trail[Len(trail)] = Returned(b, trail[Len(trail)].ret)
    /\ pc \in {"main_fdroid", "main_homebrew_macOS", "main_homebrew_Linux",
               "main_summary", "done"}

\* C10: a run over a catalog of one written, one skipped and one failed
\* application reports 1 written and 1 failed (the skipped one counted apart)
\* and overall success.
C10_ThreeCounts ==
    \A b \in {"homebrew_macOS", "homebrew_Linux", "fdroid_repo"} :
        (/\ Reporting(b)
         /\ Len(apps) = 3
         /\ Count(b, "written") = 1
         /\ Count(b, "skipped") = 1
         /\ Count(b, "failed") = 1) =>
            /\ generated_count = 1
            /\ failed_count = 1
            /\ Success(b)

\* the resolver and the platform of each builder
TargetResolver(b) ==
    CASE b = "altstore" -> "AltStoreBuilder.extract_ipa_url"
      [] b = "fdroid" -> "FDroidBuilder.extract_apk_url"
      [] b = "fdroid_repo" -> "FDroidMetadataGenerator.get_android_download_url"
      [] b = "winget" -> "WingetManifestGenerator.get_windows_download_url"
      [] OTHER -> "HomebrewBuilder.get_download_url_for_platform"
TargetPlatform(b) ==
    CASE b = "altstore" -> iOS
      [] b \in {"fdroid", "fdroid_repo"} -> Android
      [] b = "homebrew_macOS" -> macOS
      [] b = "homebrew_Linux" -> Linux
      [] OTHER -> Windows

\* what the resolver of builder b returns for version j of application i
Resolved(b, i, j) == Resolve(TargetResolver(b), apps[i].versions[j], TargetPlatform(b))

\* some version of application i resolves to a non-empty string for builder b
Resolves(b, i) ==
    /\ apps[i].t = "dict"
    /\ \E j \in 1..Len(apps[i].versions) :
           IsStr(Resolved(b, i, j)) /\ Resolved(b, i, j).s # <<>>

\* application i is a well-formed record with a slug and a fetched, non-empty
\* list of version records, and the resolver of builder b returns None for
\* each of them
NoArtifact(b, i) ==
    /\ apps[i].t = "dict"
    /\ Truthy(AGet(apps[i], "slug", NoneV))
    /\ apps[i].versions # <<>>
    /\ \A j \in 1..Len(apps[i].versions) :
           apps[i].versions[j].t = "dict" /\ Resolved(b, i, j) = NoneV

\* the event of application i in the loop of builder b
EventOf(b, i) == trail[CHOOSE j \in EventsOf(b) : trail[j].i = i]

\* application i is in what builder b has produced: a file or directory made
\* for it, a summary file that lists it, or the list the running loop collects
InFiles(b, i) == \E f \in files : f.b = b /\ f.kind = "file" /\ i \in f.apps
InTree(b, i) == \E f \in files : f.b = b /\ i \in f.apps
InList(b, i) == pc = b /\ i \in Members

\* C11, first half: an application in a target's output (apps list, metadata
\* file, index entry, formula, manifest files) has a version that resolves.
C11_OutputResolves ==
    \A b \in Builders : \A i \in 1..Len(apps) :
        (InFiles(b, i) \/ InList(b, i)) => Resolves(b, i)

\* C11, second half without the counters: an application with no resolving
\* version takes the skip branch and is in no file and no list.
C11_UnresolvedTakesSkipBranch ==
    \A b \in Builders : \A i \in 1..Len(apps) :
        (Reached(b, i) /\ NoArtifact(b, i)) =>
            /\ EventOf(b, i).path = "skipped"
            /\ ~InFiles(b, i)
            /\ ~InList(b, i)

\* C11: every application in a target's output has at least one version for
\* which the target's resolver returns a non-empty URL; an application with
\* no such version is skipped, not failed (it is not counted as a failure),
\* and appears nowhere in the output (no file, no list, no directory).
C11_OnlyResolvedEmitted ==
    \A b \in Builders : \A i \in 1..Len(apps) :
        /\ (InFiles(b, i) \/ InList(b, i)) => Resolves(b, i)
        /\ (Reached(b, i) /\ NoArtifact(b, i)) =>
               /\ EventOf(b, i).path = "skipped"
               /\ EventOf(b, i).counter # "failed_count"
               /\ ~InTree(b, i)
               /\ ~InList(b, i)

HomebrewBuilders == {"homebrew_macOS", "homebrew_Linux"}

\* the formula files builder b has written
FormulaFiles(b) == {f.name : f \in {g \in files : g.b = b /\ g.kind = "file"}}

\* C27: when the loop of a Homebrew build has ended, generated_count, which
\* is written to tap-info.json as formulae_count, is the number of distinct
\* formula files the build wrote: no two applications counted as generated
\* wrote the same path.
C27_CountIsDistinctFiles ==
    \A b \in HomebrewBuilders :
        (pc = b /\ idx > Len(apps)) => generated_count = Cardinality(FormulaFiles(b))

\* C27 for catalogs in which no two names give the same class name
C27_CountIsDistinctFilesOfDistinctNames ==
    \A b \in HomebrewBuilders :
        (/\ pc = b /\ idx > Len(apps)
         /\ \A i, j \in 1..Len(apps) :
               (i # j /\ apps[i].t = "dict" /\ apps[j].t = "dict") =>
                   sanitize_name_class(apps[i].name.s) # sanitize_name_class(apps[j].name.s))
            => generated_count = Cardinality(FormulaFiles(b))

\* the loops that keep generated_count and failed_count
CountingBuilders == {"homebrew_macOS", "homebrew_Linux", "winget", "fdroid_repo"}

Counted(b, i) ==
    Reached(b, i) /\ EventOf(b, i).counter \in {"generated_count", "failed_count"}

\* C29: in each loop that keeps generated_count and failed_count every
\* application of the catalog raises exactly one of the two counters: the
\* counters add up to the number of applications handled so far, and once
\* the loop is over every application of the catalog has been counted.
C29_ExactlyOneCounter ==
    \A b \in CountingBuilders :
        /\ pc = b => generated_count + failed_count = idx - 1
        /\ Finished(b) => \A i \in 1..Len(apps) : Counted(b, i)

\* C29 for the loops that run to their end
C29_CountersAddUpAtLoopEnd ==
    \A b \in CountingBuilders :
        /\ pc = b => generated_count + failed_count = idx - 1
        /\ (pc = b /\ idx > Len(apps)) =>
              /\ generated_count + failed_count = Len(apps)
              /\ \A i \in 1..Len(apps) : Counted(b, i)

RecognisedTargets == {"altstore", "fdroid", "homebrew"}

\* C26: build.py exits with 0 only if a recognised target (altstore, fdroid,
\* homebrew) was built and reported success; a --target value that names no
\* recognised target never gives exit code 0.
C26_ZeroOnlyAfterSuccess ==
    (prog.script = "build.py" /\ pc = "done" /\ exit_code = 0) =>
        \E t \in prog.targets \cap RecognisedTargets :
            t \in DOMAIN results /\ results[t]

\* C26 for the runs that select a recognised target
C26_ZeroOnlyAfterSuccessOfRecognised ==
    (/\ prog.script = "build.py" /\ pc = "done" /\ exit_code = 0
     /\ prog.targets \cap RecognisedTargets # {}) =>
        \A t \in prog.targets \cap RecognisedTargets :
            t \in DOMAIN results /\ results[t]

\* build_winget_repo.py has skipped application i because no Windows artifact
\* resolves
WingetSkipped(i) ==
    /\ Reached("winget", i)
    /\ NoArtifact("winget", i)
    /\ EventOf("winget", i).path = "skipped"

\* C25: an application the Winget emitter skips because no Windows artifact
\* resolves leaves the output tree as it was: no directory and no file has
\* been created for it.
C25_SkipLeavesTreeUnchanged ==
    \A i \in 1..Len(apps) : WingetSkipped(i) => ~InTree("winget", i)

\* the part of C25 about files
C25_SkipWritesNoFile ==
    \A i \in 1..Len(apps) : WingetSkipped(i) => ~InFiles("winget", i)

\* C25 for the applications whose newest version does not list Windows
C25_UnlistedLeavesTreeUnchanged ==
    \A i \in 1..Len(apps) :
        (WingetSkipped(i) /\ PlatformListed(apps[i].versions[1], Windows) = "False")
            => ~InTree("winget", i)

-----------------------------------------------------------------------------
(* Claims about the helpers, checked under SpecHelper *)

VersionToCode == "FDroidMetadataGenerator.version_to_code"
V2 == <<"v", "2">>

\* component j of the stripped and split version string; 0 when it is
\* missing or empty
ClaimComponent(components, j) ==
    IF j > Len(components) THEN 0
    ELSE IF components[j] = <<>> THEN 0
    ELSE PyInt(components[j])

\* major*10000 + minor*100 + patch of the first three components
ClaimCode(s) ==
    LET components == Split(SelectSeq(s, LAMBDA c : c \in Digits \/ c = ".")) IN
    ClaimComponent(components, 1) * 10000 + ClaimComponent(components, 2) * 100
        + ClaimComponent(components, 3)

\* C12: for every version string version_to_code returns major*10000 +
\* minor*100 + patch of the first three '.'-separated components of the
\* string stripped of everything but digits and '.', a missing or empty
\* component read as 0; the result is a non-negative integer, 10203 for
\* '1.2.3' and 20000 for 'v2'.
C12_VersionCode ==
    (called = VersionToCode /\ IsStr(arg)) =>
        /\ result = Num(ClaimCode(arg.s))
        /\ result.n >= 0
        /\ arg.s = V123 => result.n = 10203
        /\ arg.s = V2 => result.n = 20000

C12_Witness ==
    /\ called = VersionToCode
    /\ arg = Str(V2)
    /\ result = Num(20000)

\* the string holds no digit: there is no version number to read in it
Unparseable(s) == \A j \in 1..Len(s) : s[j] \notin Digits

\* C13: version_to_code returns 1 for every version string that cannot be
\* parsed into a version, such as the empty string and 'garbage'.
C13_SentinelOne ==
    (called = VersionToCode /\ IsStr(arg) /\ Unparseable(arg.s)) => result = Num(1)

\* a precedes b in component-wise order
Precedes(a, b) ==
    \/ a[1] < b[1]
    \/ a[1] = b[1] /\ a[2] < b[2]
    \/ a[1] = b[1] /\ a[2] = b[2] /\ a[3] < b[3]

\* C14: for version strings major.minor.patch a and b with non-negative
\* integer components, a before b in component-wise order implies
\* version_to_code(a) < version_to_code(b).
C14_Monotonic ==
    called = VersionToCode =>
        \A a, b \in Triples :
            (arg = Str(Dotted(a)) /\ Precedes(a, b)) =>
                result.n < FDroidMetadataGenerator_version_to_code(Str(Dotted(b)))

\* the same for versions whose minor and patch components are below 100
C14_MonotonicBelowHundred ==
    called = VersionToCode =>
        \A a, b \in Triples :
            (/\ arg = Str(Dotted(a))
             /\ Precedes(a, b)
             /\ a[2] < 100 /\ a[3] < 100 /\ b[2] < 100 /\ b[3] < 100) =>
                result.n < FDroidMetadataGenerator_version_to_code(Str(Dotted(b)))

ClassSanitizers == {"sanitize_name", "HomebrewFormulaGenerator.sanitize_class_name"}

\* the name title-cased and stripped of every character outside [A-Za-z0-9]
Stripped(name) == SelectSeq(Title(name), LAMBDA c : IsAlpha(c) \/ c \in Digits)

\* C15: for every name the class-like sanitizer returns a string without
\* raising; when the stripped name is empty or does not begin with a letter
\* the result is 'App' followed by it, so the result begins with a letter.
C15_SanitizerTotal ==
    called \in ClassSanitizers =>
        /\ IsStr(result)
        /\ result.s # <<>>
        /\ IsAlpha(result.s[1])
        /\ (Stripped(arg.s) = <<>> \/ ~IsAlpha(Stripped(arg.s)[1])) =>
               result.s = <<"A", "p", "p">> \o Stripped(arg.s)

\* C16: whatever string the class-like sanitizer returns is empty or
\* matches ^[A-Za-z][A-Za-z0-9]*$, is empty only if no character of the name
\* is left after stripping, and never starts with a digit.
C16_ClassPattern ==
    (called \in ClassSanitizers /\ IsStr(result)) =>
        /\ \/ result.s = <<>>
           \/ /\ IsAlpha(result.s[1])
              /\ \A j \in 1..Len(result.s) : IsAlpha(result.s[j]) \/ result.s[j] \in Digits
        /\ result.s = <<>> => \A j \in 1..Len(arg.s) : ~IsAlnum(arg.s[j])
        /\ result.s # <<>> => result.s[1] \notin Digits

C16_Witness ==
    /\ called = "sanitize_name"
    /\ arg = Str(<<"1", "a">>)
    /\ result = Str(<<"A", "p", "p", "1", "A">>)

\* the label lowercased, its spaces replaced by hyphens
Normalized(label) ==
    [j \in 1..Len(label) |-> IF label[j] = " " THEN "-" ELSE LowerChar(label[j])]

\* the F-Droid table
ClaimTable ==
    [k \in valid_categories |->
        CASE k \in {cat_entertainment, cat_photo_video} -> fcat_Multimedia
          [] k = cat_games -> fcat_Games
          [] k = cat_social -> fcat_Internet
          [] k = cat_developer -> fcat_Development
          [] OTHER -> fcat_System]

FDroidVocabulary == {fcat_Multimedia, fcat_Games, fcat_System, fcat_Internet, fcat_Development}

\* C17: for every raw label _map_category returns the normalized label when
\* it is one of the valid AltStore categories and 'other' otherwise, and
\* _map_fdroid_category returns the table's value for the normalized label
\* when it is a key and 'System' otherwise; the result is always in the
\* target's vocabulary; 'Photo-Video' gives 'photo-video' and 'unknown-xyz'
\* gives 'other' for AltStore.
C17_CategoryVocabulary ==
    LET label == Normalized(PyStr(arg)) IN
    /\ called \in {"AltStoreBuilder._map_category", "AltStoreRepoBuilder._map_category"} =>
          /\ result.s \in valid_categories
          /\ result.s = IF label \in valid_categories THEN label ELSE cat_other
          /\ arg = Str(PhotoVideo) => result.s = cat_photo_video
          /\ arg = Str(UnknownXyz) => result.s = cat_other
    /\ called = "FDroidBuilder._map_fdroid_category" =>
          /\ result.s \in FDroidVocabulary
          /\ result.s = IF label \in valid_categories THEN ClaimTable[label] ELSE fcat_System

C17_Witness ==
    /\ called = "AltStoreBuilder._map_category"
    /\ arg = Str(Replace(PhotoVideo, "-", " "))
    /\ result = Str(cat_photo_video)

BuildAppEntry == "AltStoreBuilder.build_app_entry"

\* the extraction cannot deliver permission data: the download fails, the
\* body is no archive, it has no bundle directory, or neither file is there
\* and parseable
ExtractionFails(ipa) ==
    \/ ipa.get = "error"
    \/ ~ipa.archive
    \/ ~ipa.app_dir
    \/ /\ ipa.info \in {"absent", "unparseable"}
       /\ ipa.entitlements \in {"absent", "unparseable"}

IpaAccepts(v) == v.t = "dict" /\ Truthy(AltStoreBuilder_extract_ipa_url(v))
ApkAccepts(v) == v.t = "dict" /\ Truthy(FDroidBuilder_extract_apk_url(v))

\* the indices, among the first n, of the versions the resolver accepts
KeptIpa(versions, n) == {j \in 1..Len(versions) : j <= n /\ IpaAccepts(versions[j])}
KeptApk(versions, n) == {j \in 1..Len(versions) : j <= n /\ ApkAccepts(versions[j])}

\* what is emitted for each version: the resolved address, the version name
IpaKeys(versions) ==
    [j \in 1..Len(versions) |-> AltStoreBuilder_extract_ipa_url(versions[j])]
NameKeys(versions) == [j \in 1..Len(versions) |-> versions[j].version]

\* emitted holds the keys of exactly the kept versions, in their order
InOrder(emitted, keys, kept) ==
    /\ Len(emitted) = Cardinality(kept)
    /\ \A j \in kept : emitted[Cardinality({i \in kept : i <= j})] = keys[j]

C20_FirstNInOrder ==
    LET versions == arg.app.versions IN
    /\ (called = BuildAppEntry /\ result # NoneV) =>
          InOrder(result.versions, IpaKeys(versions), KeptIpa(versions, 10))
    /\ (called = "FDroidBuilder.build_metadata_yml" /\ result.t = "metadata") =>
          InOrder(result.builds, NameKeys(versions), KeptApk(versions, 5))
    /\ (called = "FDroidBuilder.build_index_json" /\ result.t = "index") =>
          /\ result.packages = <<>> => KeptApk(versions, 5) = {}
          /\ result.packages # <<>> =>
                InOrder(result.packages[1], NameKeys(versions), KeptApk(versions, 5))

\* a list longer than the cap whose last version resolves and whose second
\* does not
C20_Witness ==
    /\ called = BuildAppEntry
    /\ Len(arg.app.versions) > 10
    /\ IpaAccepts(arg.app.versions[Len(arg.app.versions)])
    /\ ~IpaAccepts(arg.app.versions[2])
    /\ result # NoneV
    /\ Len(result.versions) = 9

\* FDroidBuilder.build hands build_index_json the applications that have a
\* version with an Android artifact
Indexed ==
    /\ called = "FDroidBuilder.build_index_json"
    /\ result.t = "index"
    /\ HasAndroid(arg.app.versions) = "True"

PackageNames == {result.packageNames[j] : j \in 1..Len(result.packageNames)}

\* C24: in the index the packageName of every entry of 'apps' is a key of
\* 'packages' (which holds non-empty version lists only), and every key of
\* 'packages' is the packageName of an entry of 'apps'.
C24_AppsMatchPackages ==
    Indexed => PackageNames = result.keys

\* the same for an application that has a bundleIdentifier and an Android
\* artifact among its first five versions
C24_AppsMatchPackagesOfBundled ==
    (/\ Indexed
     /\ arg.app.bundleIdentifier # AbsentV
     /\ KeptApk(arg.app.versions, FDroidCap) # {}) => PackageNames = result.keys

\* the same for every application with a bundleIdentifier, those whose only
\* Android artifacts are past the fifth version included
C24_LateArtifact ==
    (Indexed /\ arg.app.bundleIdentifier # AbsentV) => PackageNames = result.keys

GenerateManifests == "WingetManifestGenerator.generate_manifests"

\* the directory the claim names: manifests/<publisher>/<normalized-name>/<version>
ClaimDirectory(name, v) ==
    Publisher \o <<"/">> \o SelectSeq(Title(name), IsAlnum) \o <<"/">> \o v

ManifestTypes == {"version", "defaultLocale", "installer"}

\* C22: generate_manifests returns True only if the version, locale and
\* installer descriptor files were all written, into the one directory
\* manifests/<publisher>/<normalized-name>/<version>, each with the package
\* identifier of the application and the version string of versions[0].
C22_ThreeCoLocated ==
    (called = GenerateManifests /\ result.ret = "True") =>
        LET app == arg.app
            vs == app.versions[1].version
        IN /\ Cardinality(result.written) = 3
           /\ {w.manifest.ManifestType : w \in result.written} = ManifestTypes
           /\ \A w \in result.written :
                 /\ w.dir = ClaimDirectory(app.name.s, vs.s)
                 /\ w.manifest.PackageIdentifier =
                        Publisher \o <<".">> \o SelectSeq(Title(app.name.s), IsAlnum)
                 /\ w.manifest.PackageVersion = vs

\* the manifests of an application named "-a" at version '2'
C22_Witness ==
    /\ called = GenerateManifests
    /\ arg.app.name = Str(<<"-", "a">>)
    /\ result.ret = "True"
    /\ \E w \in result.written :
          /\ w.dir = Publisher \o <<"/", "A", "/", "2">>
          /\ w.manifest.PackageVersion = Str(<<"2">>)

FormulaContents ==
    {"HomebrewBuilder.generate_formula_content",
     "HomebrewFormulaGenerator.generate_formula_content"}

\* the line is an active sha256 line, and the value between its quotes
IsActive(line) == StartsWith(line, ActiveHead)
ValueOf(line) == SubSeq(line, Len(ActiveHead) + 1, Len(line) - 1)
IsDigest(s) == Len(s) = 64 /\ \A j \in 1..64 : s[j] \in HexDigits

\* the hash cannot be computed: the download raises or the status is not 200
HashFails(net) == net.get # "200"

\* C28: when hashing is requested and the hash cannot be computed, the
\* formula has the placeholder comment line; an active sha256 line is
\* emitted only with a 64-hex-digit digest as its value.
C28_PlaceholderOnFailure ==
    called \in FormulaContents =>
        /\ (arg.calculate_sha256 /\ HashFails(arg.net)) => result.s = Placeholder
        /\ IsActive(result.s) => IsDigest(ValueOf(result.s))

\* C28 for HomebrewBuilder.generate_formula_content of build.py
C28_PlaceholderOnFailureInBuilder ==
    called = "HomebrewBuilder.generate_formula_content" =>
        /\ (arg.calculate_sha256 /\ HashFails(arg.net)) => result.s = Placeholder
        /\ IsActive(result.s) => IsDigest(ValueOf(result.s))

\* the emitters that work from one version of the list
GenerateFormula == "HomebrewBuilder.generate_formula"
GenerateMetadataForApp == "FDroidMetadataGenerator.generate_metadata_for_app"
SingleVersionEmitters == {GenerateFormula, GenerateManifests, GenerateMetadataForApp}

\* the platform emitter h looks for and the URL it resolves from version v
EmitterPlatform(h) ==
    CASE h = GenerateFormula -> arg.platform
      [] h = GenerateManifests -> Windows
      [] h = GenerateMetadataForApp -> Android
EmitterUrl(h, v) ==
    CASE h = GenerateFormula -> HomebrewBuilder_get_download_url_for_platform(v, arg.platform)
      [] h = GenerateManifests -> WingetManifestGenerator_get_windows_download_url(v)
      [] h = GenerateMetadataForApp -> FDroidMetadataGenerator_get_android_download_url(v)

\* version v lists the platform of emitter h and resolves to a URL for it
Usable(h, v) ==
    /\ PlatformListed(v, EmitterPlatform(h)) = "True"
    /\ IsStr(EmitterUrl(h, v))
    /\ EmitterUrl(h, v).s # <<>>

C30_WrittenFromTwo ==
    /\ called \in SingleVersionEmitters
    /\ Len(arg.app.versions) = 2
    /\ arg.app.versions[1] = GoodVersion
    /\ result.written # {}

-----------------------------------------------------------------------------
(* Claims about the requests of a batch run, checked under SpecBatch *)

\* C18: in a run with every opt-in flag off no full-body GET of an artifact
\* URL is issued, for any application of any target.
C18_NoImplicitDownload ==
    ~prog.opt_in => \A r \in requests : r.method # "GET"

\* the same for every builder but AltStoreBuilder
C18_NoImplicitDownloadButAltStore ==
    ~prog.opt_in => \A r \in requests : r.method = "GET" => r.b = "altstore"

====
